---- MODULE Spec2Model ----
(***************************************************************************)
(* A model of the bind subsystem of the moacyr bot: the SQLite "binds"     *)
(* table behind BindManager, its autocomplete cache, the slash commands of *)
(* BindGroup and the two modals, as they interleave on one event loop;     *)
(* and of the Steam classes: SteamID.from_guess with its five patterns and *)
(* the conversions of SteamID, over unbounded decimal integers, and        *)
(* SteamUser.from_steamid over the answers to its five requests; of the    *)
(* EmbScroller view that /bind list-mine sends; and of the activity cycle  *)
(* of CustomBot.                                                           *)
(*                                                                         *)
(* Strings.  A name is a sequence of characters, each character a token    *)
(* ("G", "o", ...).  Python's str.lower()/str.upper() are full Unicode     *)
(* case mappings, so three non-ASCII letters are part of the alphabet:     *)
(*   "I_dot"  U+0130, whose lower() is the two characters "i" "comb_dot"   *)
(*            (U+0069 U+0307), the second of which is not alphanumeric;    *)
(*   "sz"     U+00DF, whose upper() is the two characters "S" "S" and      *)
(*            whose lower() is itself;                                     *)
(*   "comb_dot" U+0307, a combining mark (category Mn).                    *)
(* A text is a sequence of atoms [k, n]: a run of n plain characters, or   *)
(* one of the substrings the cleansing code searches for.                  *)
(***************************************************************************)
EXTENDS Integers, Sequences, FiniteSets, TLC

VARIABLES
    binds,           \* the rows of table "binds", in rowid order
    complete_cache,  \* BindManager.complete_cache: (user, guild) -> list of Bind
    modals,          \* the modals that were sent and are not yet submitted
    reply,           \* what the last handler answered
    steam,           \* the last call into the Steam classes: what it was
                     \* given, what the Steam Web API answered, its outcome
    view,            \* the EmbScroller of the last /bind list-mine
    bot              \* CustomBot: its activities and the tasks cycling them

vars == <<binds, complete_cache, modals, reply, steam, view, bot>>

\* ---------------------------------------------------------------- constants

MIN_NAME_LEN == 2
MAX_NAME_LEN == 25
MIN_TEXT_LEN == 3
MAX_TEXT_LEN == 600
MAX_COMPLETE_OPTS == 25

\* At most this many modals are open at once.
MaxModals == 2

\* ------------------------------------------------------------------ strings

RECURSIVE Rep(_, _)
\* n copies of the sequence s, one after the other (Python's s * n).
Rep(s, n) == IF n <= 0 THEN <<>> ELSE s \o Rep(s, n - 1)

\* str.lower() of one character: a sequence, since U+0130 lowers to two.
lower_char(c) ==
    CASE c = "G" -> <<"g">>
      [] c = "O" -> <<"o">>
      [] c = "A" -> <<"a">>
      [] c = "B" -> <<"b">>
      [] c = "S" -> <<"s">>
      [] c = "I" -> <<"i">>
      [] c = "I_dot" -> <<"i", "comb_dot">>
      [] OTHER -> <<c>>

\* str.upper() of one character: a sequence, since U+00DF uppers to "SS".
upper_char(c) ==
    CASE c = "g" -> <<"G">>
      [] c = "o" -> <<"O">>
      [] c = "a" -> <<"A">>
      [] c = "b" -> <<"B">>
      [] c = "s" -> <<"S">>
      [] c = "i" -> <<"I">>
      [] c = "sz" -> <<"S", "S">>
      [] OTHER -> <<c>>

RECURSIVE lower(_)
\* str.lower(): every character lowered, in order.
lower(s) == IF s = <<>> THEN <<>> ELSE lower_char(Head(s)) \o lower(Tail(s))

RECURSIVE upper(_)
\* str.upper(): every character uppered, in order.
upper(s) == IF s = <<>> THEN <<>> ELSE upper_char(Head(s)) \o upper(Tail(s))

\* Python's "sub in s" for strings: sub occurs in s as a contiguous run.
IsSubstr(sub, s) ==
    \E i \in 0..(Len(s) - Len(sub)) :
        \A j \in 1..Len(sub) : s[i + j] = sub[j]

\* The characters c for which c.isalnum() is true.
AlnumChars ==
    {"G", "g", "O", "o", "A", "a", "B", "b", "S", "s", "I", "i",
     "I_dot", "sz", "7"}

\* str.isalnum(): at least one character, and every character alphanumeric.
isalnum(s) == Len(s) >= 1 /\ \A i \in DOMAIN s : s[i] \in AlnumChars

\* ------------------------------------------------------------------- binds

\* The dataclass Bind; also one row of the table.
Bind(name, text, author, guild, time) ==
    [name |-> name, text |-> text, author |-> author, guild |-> guild,
     time |-> time]

\* Python's None where a Bind is expected. No row has an empty name.
None == Bind(<<>>, <<>>, 0, 0, 0)

\* BindManager.get_bind: SELECT ... WHERE name=lower(name) AND guild=guild,
\* fetchone().
get_bind(name, guild) ==
    LET Hit(b) == b.name = lower(name) /\ b.guild = guild
        rows == SelectSeq(binds, Hit)
    IN  IF rows # <<>> THEN Head(rows) ELSE None

\* BindManager.get_all_binds: SELECT ... WHERE author=? AND guild=?.
get_all_binds(author, guild) ==
    LET Hit(b) == b.author = author /\ b.guild = guild
    IN  SelectSeq(binds, Hit)

\* The empty dict.
EmptyCache == [k \in {} |-> <<>>]

\* _commit without complete_cache.clear().
_commit_keeps_cache == UNCHANGED complete_cache

\* BindManager._commit: db.commit(), then complete_cache.clear().
_commit == complete_cache' = EmptyCache

\* UNIQUE("guild","name") of the CREATE TABLE statement: inserting this row
\* raises sqlite3.IntegrityError.
UniqueViolated(row) ==
    \E i \in DOMAIN binds :
        binds[i].guild = row.guild /\ binds[i].name = row.name

\* add_bind on a table declared without UNIQUE("guild","name").
add_bind_no_unique(name, text, author, guild, timestamp) ==
    /\ binds' = Append(binds,
                       Bind(lower(name), text, author, guild, timestamp))
    /\ _commit

\* add_bind written with INSERT OR REPLACE: the row of the same guild and
\* name is dropped and the new one appended.
add_bind_or_replace(name, text, author, guild, timestamp) ==
    LET row == Bind(lower(name), text, author, guild, timestamp)
        Keep(b) == ~(b.name = row.name /\ b.guild = row.guild)
    IN  binds' = Append(SelectSeq(binds, Keep), row) /\ _commit

\* BindManager.add_bind: INSERT the row with the name lowercased, commit.
\* When the INSERT raises, nothing is written and _commit is not reached.
add_bind(name, text, author, guild, timestamp) ==
    LET row == Bind(lower(name), text, author, guild, timestamp)
    IN  IF UniqueViolated(row)
        THEN UNCHANGED <<binds, complete_cache>>
        ELSE binds' = Append(binds, row) /\ _commit

\* edit_bind without its self._commit(): the UPDATE is seen by every later
\* SELECT on the connection, and the cache is not cleared.
edit_bind_uncommitted(bind, new_text) ==
    /\ binds' = [i \in DOMAIN binds |->
                    IF binds[i].name = bind.name /\ binds[i].guild = bind.guild
                    THEN [binds[i] EXCEPT !.text = new_text]
                    ELSE binds[i]]
    /\ UNCHANGED complete_cache

\* edit_bind with WHERE name=? alone.
edit_bind_any_guild(bind, new_text) ==
    /\ binds' = [i \in DOMAIN binds |->
                    IF binds[i].name = bind.name
                    THEN [binds[i] EXCEPT !.text = new_text]
                    ELSE binds[i]]
    /\ _commit

\* BindManager.edit_bind: UPDATE binds SET text=? WHERE name=? AND guild=?.
edit_bind(bind, new_text) ==
    /\ binds' = [i \in DOMAIN binds |->
                    IF binds[i].name = bind.name /\ binds[i].guild = bind.guild
                    THEN [binds[i] EXCEPT !.text = new_text]
                    ELSE binds[i]]
    /\ _commit

\* BindManager.delete_bind: DELETE FROM binds WHERE name=? AND guild=?.
delete_bind(bind) ==
    LET Keep(b) == ~(b.name = bind.name /\ b.guild = bind.guild)
    IN  binds' = SelectSeq(binds, Keep) /\ _commit

\* nuke_server_binds without its WHERE clause.
nuke_all_binds(guild) == binds' = <<>> /\ _commit

\* BindManager.nuke_server_binds: DELETE FROM binds WHERE guild=?.
nuke_server_binds(guild) ==
    LET Keep(b) == b.guild # guild
    IN  binds' = SelectSeq(binds, Keep) /\ _commit

\* ------------------------------------------------------------------- texts

\* One atom of a text: k says which substring, n is its parameter (the run
\* length of "plain", the id of a mention, the length of a substituted name).
Atom(k, n) == [k |-> k, n |-> n]

RECURSIVE DigitsOf(_)
\* The number of decimal digits of id, as written in a mention.
DigitsOf(id) == IF id < 10 THEN 1 ELSE 1 + DigitsOf(id \div 10)

\* The number of characters of an atom.
AtomLen(a) ==
    CASE a.k = "plain" -> a.n                      \* n ordinary characters
      [] a.k = "here" -> 5                         \* @here
      [] a.k = "here_z" -> 6                       \* @ U+200B here
      [] a.k = "everyone" -> 9                     \* @everyone
      [] a.k = "everyone_z" -> 10                  \* @ U+200B everyone
      [] a.k = "user" -> 3 + DigitsOf(a.n)         \* <@id>
      [] a.k = "user_z" -> 2 + a.n                 \* @ U+200B display_name
      [] a.k = "role" -> 4 + DigitsOf(a.n)         \* <@&id>
      [] a.k = "role_z" -> 2 + a.n                 \* @ U+200B role.name
      [] a.k = "DEAD" -> 6                         \* *DEAD*
      [] a.k = "DEAD_esc" -> 8                     \* \*DEAD\*

RECURSIVE TextLen(_)
\* len(text).
TextLen(text) ==
    IF text = <<>> THEN 0 ELSE AtomLen(Head(text)) + TextLen(Tail(text))

\* str.replace(old, new) where old and new are one atom each.
Replace(text, old, new) ==
    [i \in DOMAIN text |-> IF text[i] = old THEN new ELSE text[i]]

\* re.findall of one kind of mention: the ids, in order of occurrence.
FindAll(text, kind) ==
    LET Hit(a) == a.k = kind
        hits == SelectSeq(text, Hit)
    IN  [i \in DOMAIN hits |-> hits[i].n]

RECURSIVE ReplaceUsers(_, _, _)
\* The loop over mentions: each <@id> becomes @ U+200B display_name.
ReplaceUsers(message, ids, env) ==
    IF ids = <<>> THEN message
    ELSE ReplaceUsers(
             Replace(message, Atom("user", Head(ids)),
                     Atom("user_z", env.user[Head(ids)])),
             Tail(ids), env)

RECURSIVE ReplaceRoles(_, _, _)
\* The loop over roles: each <@&id> becomes @ U+200B role.name, and the loop
\* breaks at the first role the guild does not have (length 0 here).
ReplaceRoles(message, ids, env) ==
    IF ids = <<>> THEN message
    ELSE IF env.role[Head(ids)] = 0 THEN message
    ELSE ReplaceRoles(
             Replace(message, Atom("role", Head(ids)),
                     Atom("role_z", env.role[Head(ids)])),
             Tail(ids), env)

\* bot.fetch_user raises NotFound for one of the mentioned ids (length 0).
FetchUserRaises(text, env) ==
    \E i \in DOMAIN text : text[i].k = "user" /\ env.user[text[i].n] = 0

\* utils.remove_mentions, for an interaction in a guild. env.user[id] is the
\* length of the display name fetch_user(id) gives, env.role[id] the length
\* of the name of guild.get_role(id).
remove_mentions(message, env) ==
    LET mentions == FindAll(message, "user")
        roles == FindAll(message, "role")
        m1 == Replace(message, Atom("here", 0), Atom("here_z", 0))
        m2 == Replace(m1, Atom("everyone", 0), Atom("everyone_z", 0))
        m3 == ReplaceUsers(m2, mentions, env)
    IN  ReplaceRoles(m3, roles, env)

\* cleanse_text: remove_mentions, then "*DEAD*" -> "\*DEAD\*".
cleanse_text(text, env) ==
    Replace(remove_mentions(text, env), Atom("DEAD", 0), Atom("DEAD_esc", 0))

\* TextInput(min_length=MIN_TEXT_LEN, max_length=MAX_TEXT_LEN): the values a
\* modal can be submitted with.
TextInputAccepts(text) ==
    MIN_TEXT_LEN <= TextLen(text) /\ TextLen(text) <= MAX_TEXT_LEN

\* ---------------------------------------------------------------- handlers

\* What the last handler answered: the command, how it ended, the binds it
\* showed and the choices it offered.
Reply(op, status, rows, choices) ==
    [op |-> op, status |-> status, rows |-> rows, choices |-> choices]

\* BindRegisterModal(name) or BindModifyModal(bind), shown to user in guild.
Modal(kind, user, guild, name, bind) ==
    [kind |-> kind, user |-> user, guild |-> guild, name |-> name,
     bind |-> bind]

\* inter.response.send_modal(modal): an interaction is answered once, and
\* send_modal after send_message raises InteractionResponded.
send_modal(responded, modal) ==
    IF responded THEN modals ELSE modals \cup {modal}

\* BindGroup.register. The length check answers with an error and does not
\* return: the handler goes on to send_modal with the response already used.
register(user, guild, name) ==
    LET bind == get_bind(name, guild)
        bad_len == Len(name) > MAX_NAME_LEN \/ Len(name) < MIN_NAME_LEN
        status == IF bind # None THEN "exists"
                  ELSE IF ~isalnum(name) THEN "not_alnum"
                  ELSE IF bad_len THEN "bad_len"
                  ELSE "modal"
    IN  /\ modals' = IF status \in {"exists", "not_alnum"}
                     THEN modals
                     ELSE send_modal(bad_len,
                                     Modal("register", user, guild, name, None))
        /\ Cardinality(modals') <= MaxModals
        /\ reply' = Reply("register", status, <<>>, <<>>)
        /\ UNCHANGED <<binds, complete_cache>>

\* BindRegisterModal.on_submit with the text typed, at time timestamp.
BindRegisterModal_on_submit(modal, value, timestamp, env) ==
    /\ modal \in modals
    /\ modal.kind = "register"
    /\ TextInputAccepts(value)
    /\ modals' = modals \ {modal}
    /\ IF FetchUserRaises(value, env)
       THEN /\ UNCHANGED <<binds, complete_cache>>
            /\ reply' = Reply("register_submit", "NotFound", <<>>, <<>>)
       ELSE LET text == cleanse_text(value, env)
                row == Bind(lower(modal.name), text, modal.user,
                            modal.guild, timestamp)
            IN  /\ add_bind(modal.name, text, modal.user, modal.guild,
                            timestamp)
                /\ reply' = Reply("register_submit",
                                  IF UniqueViolated(row)
                                  THEN "IntegrityError" ELSE "registered",
                                  <<>>, <<>>)

\* BindGroup.modify.
modify(user, guild, name) ==
    LET bind == get_bind(name, guild)
        status == IF bind = None THEN "not_found"
                  ELSE IF bind.author # user THEN "not_owner"
                  ELSE "modal"
    IN  /\ modals' = IF status = "modal"
                     THEN send_modal(FALSE,
                                     Modal("modify", user, guild, <<>>, bind))
                     ELSE modals
        /\ Cardinality(modals') <= MaxModals
        /\ reply' = Reply("modify", status, <<>>, <<>>)
        /\ UNCHANGED <<binds, complete_cache>>

\* BindModifyModal.on_submit with the text typed.
BindModifyModal_on_submit(modal, value, env) ==
    /\ modal \in modals
    /\ modal.kind = "modify"
    /\ TextInputAccepts(value)
    /\ modals' = modals \ {modal}
    /\ IF FetchUserRaises(value, env)
       THEN /\ UNCHANGED <<binds, complete_cache>>
            /\ reply' = Reply("modify_submit", "NotFound", <<>>, <<>>)
       ELSE LET text == cleanse_text(value, env)
            IN  /\ edit_bind(modal.bind, text)
                /\ reply' = Reply("modify_submit", "edited", <<>>, <<>>)

\* delete without the check of lines 349-351.
delete_unchecked(user, guild, name, manage_messages) ==
    LET bind == get_bind(name, guild)
    IN  /\ IF bind # None
           THEN delete_bind(bind)
           ELSE UNCHANGED <<binds, complete_cache>>
        /\ reply' = Reply("delete",
                          IF bind = None THEN "not_found" ELSE "deleted",
                          <<>>, <<>>)
        /\ UNCHANGED modals

\* BindGroup.delete, by a user who has the manage_messages permission or not.
delete(user, guild, name, manage_messages) ==
    LET bind == get_bind(name, guild)
        status == IF bind = None THEN "not_found"
                  ELSE IF bind.author # user /\ ~manage_messages
                       THEN "not_owner"
                  ELSE "deleted"
    IN  /\ IF status = "deleted"
           THEN delete_bind(bind)
           ELSE UNCHANGED <<binds, complete_cache>>
        /\ reply' = Reply("delete", status, <<>>, <<>>)
        /\ UNCHANGED modals

\* BindGroup.say: the bind's text, or the not-found embed.
say(user, guild, name) ==
    LET bind == get_bind(name, guild)
    IN  /\ reply' = Reply("say", IF bind = None THEN "not_found" ELSE "said",
                          IF bind # None THEN <<bind>> ELSE <<>>, <<>>)
        /\ UNCHANGED <<binds, complete_cache, modals>>

\* The default group_size of split_binds.
GROUP_SIZE == 15

\* binds[:n], for n >= 0.
Take(list, n) == SubSeq(list, 1, IF n < Len(list) THEN n ELSE Len(list))

\* binds[n:], for n >= 0.
Drop(list, n) == SubSeq(list, (IF n < Len(list) THEN n ELSE Len(list)) + 1,
                        Len(list))

RECURSIVE split_loop(_, _, _, _)
\* The loop of split_binds: `left` items of the list it was called with are
\* still to be iterated, rest is what `binds` names now.
split_loop(left, rest, group_size, final_list) ==
    IF left = 0 \/ rest = <<>>
    THEN final_list
    ELSE split_loop(left - 1, Drop(rest, group_size), group_size,
                    Append(final_list, Take(rest, group_size)))

\* split_binds, had it kept the groups of group_size binds only.
split_binds_full_groups(list, group_size) ==
    LET groups == split_loop(Len(list), list, group_size, <<>>)
        Full(group) == Len(group) = group_size
    IN  SelectSeq(groups, Full)

\* split_binds: the list in groups of group_size binds.
split_binds(list, group_size) == split_loop(Len(list), list, group_size, <<>>)

\* str.capitalize(): the first character in title case, the rest lowered.
capitalize(s) ==
    IF s = <<>> THEN <<>>
    ELSE (IF Head(s) = "sz" THEN <<"S", "s">> ELSE upper_char(Head(s)))
             \o lower(Tail(s))

\* bind_groups_to_embeds: one embed for each group, its description the
\* capitalized names of the group.
bind_groups_to_embeds(groups) ==
    [g \in DOMAIN groups |->
        [description |->
            [i \in DOMAIN groups[g] |-> capitalize(groups[g][i].name)]]]

\* No EmbScroller was sent yet.
NoView ==
    [user |-> 0, embeds |-> <<>>, index |-> 0, back_disabled |-> TRUE,
     forward_disabled |-> TRUE, label |-> <<0, 0>>, shown |-> 0,
     active |-> FALSE]

\* EmbScroller.update_label: "{index + 1} de {len(embeds)}".
update_label(v) == [v EXCEPT !.label = <<v.index + 1, Len(v.embeds)>>]

\* EmbScroller.__init__, for the interaction of user, sent with embeds[0].
\* The back button is made disabled by its decorator.
EmbScroller(user, embeds) ==
    update_label([user |-> user, embeds |-> embeds, index |-> 0,
                  back_disabled |-> TRUE,
                  forward_disabled |-> Len(embeds) <= 1,
                  label |-> <<0, 0>>, shown |-> 0, active |-> TRUE])

\* EmbScroller.interaction_check.
interaction_check(v, user) == user = v.user

\* set_index without the test of the last index.
set_index_unbounded(v, new_index) ==
    update_label([v EXCEPT !.index = new_index,
                           !.back_disabled = new_index <= 0,
                           !.forward_disabled = FALSE])

\* EmbScroller.set_index.
set_index(v, new_index) ==
    update_label([v EXCEPT !.index = new_index,
                           !.back_disabled = new_index <= 0,
                           !.forward_disabled =
                               new_index >= Len(v.embeds) - 1])

\* inter.response.edit_message(embed=self.embeds[self.index], view=self):
\* the embed at the index is shown, a negative index counting from the
\* end; an index beyond the list raises IndexError and nothing is edited.
edit_message(v) ==
    IF v.index \in 0..(Len(v.embeds) - 1) THEN [v EXCEPT !.shown = v.index]
    ELSE IF -v.index \in 1..Len(v.embeds)
    THEN [v EXCEPT !.shown = Len(v.embeds) + v.index]
    ELSE v

\* A press of a button of the view that is not disabled, by user: the
\* callback back (step = -1) or forward (step = 1) runs when
\* interaction_check allows it.
press(user, button, step) ==
    /\ view.active
    /\ ~(IF step < 0 THEN view.back_disabled ELSE view.forward_disabled)
    /\ IF interaction_check(view, user)
       THEN LET v == edit_message(set_index(view, view.index + step))
            IN  /\ view' = v
                /\ reply' = Reply(button,
                                  IF v.index \in
                                         (-Len(v.embeds))..(Len(v.embeds) - 1)
                                  THEN "edited" ELSE "IndexError",
                                  <<>>, <<>>)
       ELSE /\ view' = view
            /\ reply' = Reply(button, "ignored", <<>>, <<>>)
    /\ UNCHANGED <<binds, complete_cache, modals>>

\* EmbScroller.back pressed by user.
back(user) == press(user, "back", -1)

\* EmbScroller.forward pressed by user.
forward(user) == press(user, "forward", 1)

\* EmbScroller.on_timeout: the message is edited to have no view.
on_timeout ==
    /\ view.active
    /\ view' = [view EXCEPT !.active = FALSE]
    /\ reply' = Reply("on_timeout", "", <<>>, <<>>)
    /\ UNCHANGED <<binds, complete_cache, modals>>

\* BindGroup.listmine, lines 400-403: the EmbScroller that list-mine sends
\* with the first embed, over the groups of the binds of the user; none
\* when the user has no binds.  Every call makes a view of its own, which
\* no other handler reads: it is followed where its buttons are pressed.
listmine_view(user, guild) ==
    LET rows == get_all_binds(user, guild)
    IN  IF rows = <<>>
        THEN view
        ELSE EmbScroller(user,
                         bind_groups_to_embeds(split_binds(rows, GROUP_SIZE)))

\* BindGroup.listmine: the binds of the user in the guild.
listmine(user, guild) ==
    LET rows == get_all_binds(user, guild)
    IN  /\ reply' = Reply("listmine", IF rows = <<>> THEN "empty" ELSE "list",
                          rows, <<>>)
        /\ UNCHANGED <<binds, complete_cache, modals>>

\* bind_complete: the cached list of the user is read, and filled from the
\* table first when the cache has no list, or an empty one, for the user.
bind_complete(user, guild, current) ==
    LET user_tuple == <<user, guild>>
        miss == \/ user_tuple \notin DOMAIN complete_cache
                \/ complete_cache[user_tuple] = <<>>
        cache == IF miss
                 THEN [k \in DOMAIN complete_cache \cup {user_tuple} |->
                          IF k = user_tuple THEN get_all_binds(user, guild)
                          ELSE complete_cache[k]]
                 ELSE complete_cache
        cached == cache[user_tuple]
        first == SubSeq(cached, 1,
                        IF Len(cached) < MAX_COMPLETE_OPTS
                        THEN Len(cached) ELSE MAX_COMPLETE_OPTS)
        Match(b) == IsSubstr(current, b.name)
        chosen == IF current = <<>> THEN first ELSE SelectSeq(first, Match)
    IN  /\ complete_cache' = cache
        /\ reply' = Reply("complete", IF miss THEN "miss" ELSE "hit", <<>>,
                          [i \in DOMAIN chosen |-> chosen[i].name])
        /\ UNCHANGED <<binds, modals>>

\* BindGroup.server_leave_deleter, the on_guild_remove listener.
server_leave_deleter(guild) ==
    /\ nuke_server_binds(guild)
    /\ reply' = Reply("guild_remove", "nuked", <<>>, <<>>)
    /\ UNCHANGED modals

\* ------------------------------------------------------------------- steam

\* Python's int is unbounded, and an id64 does not fit the integers of the
\* model checker: an integer is a sign and its decimal digits, the most
\* significant first, without leading zeros (zero is the one digit 0).
BigInt(neg, mag) == [neg |-> neg, mag |-> mag]

\* The characters "0" to "9", by value.
DigitChars == <<"0", "1", "2", "3", "4", "5", "6", "7", "8", "9">>

\* The characters the class [0-9] matches.
DigitSet == {DigitChars[d] : d \in 1..10}

\* The value of the digit character c.
DigitVal(c) == (CHOOSE d \in 1..10 : DigitChars[d] = c) - 1

RECURSIVE Canon(_)
\* The digits without their leading zeros.
Canon(mag) ==
    IF Len(mag) > 1 /\ Head(mag) = 0 THEN Canon(Tail(mag)) ELSE mag

RECURSIVE AddDigits(_, _, _, _, _)
\* The digits of a[1..i] + b[1..j] + carry, worked from the last digit.
AddDigits(a, b, i, j, carry) ==
    IF i = 0 /\ j = 0
    THEN IF carry = 0 THEN <<>> ELSE <<carry>>
    ELSE LET t == (IF i > 0 THEN a[i] ELSE 0) + (IF j > 0 THEN b[j] ELSE 0)
                      + carry
         IN  Append(AddDigits(a, b, IF i > 0 THEN i - 1 ELSE 0,
                              IF j > 0 THEN j - 1 ELSE 0, t \div 10),
                    t % 10)

\* a + b of two numbers that are not negative.
NatAdd(a, b) == Canon(AddDigits(a, b, Len(a), Len(b), 0))

RECURSIVE SubDigits(_, _, _, _, _)
\* The digits of a[1..i] - b[1..j] - borrow, worked from the last digit.
SubDigits(a, b, i, j, borrow) ==
    IF i = 0
    THEN <<>>
    ELSE LET t == a[i] - (IF j > 0 THEN b[j] ELSE 0) - borrow
         IN  Append(SubDigits(a, b, i - 1, IF j > 0 THEN j - 1 ELSE 0,
                              IF t < 0 THEN 1 ELSE 0),
                    (t + 10) % 10)

\* a < b of two numbers that are not negative.
NatLess(a, b) ==
    \/ Len(a) < Len(b)
    \/ /\ Len(a) = Len(b)
       /\ \E i \in DOMAIN a :
              a[i] < b[i] /\ \A j \in 1..(i - 1) : a[j] = b[j]

\* a - b of two numbers that are not negative, a >= b.
NatSub(a, b) == Canon(SubDigits(a, b, Len(a), Len(b), 0))

\* x + y.
Add(x, y) ==
    IF x.neg = y.neg
    THEN LET sum == NatAdd(x.mag, y.mag)
         IN  BigInt(x.neg /\ sum # <<0>>, sum)
    ELSE IF NatLess(x.mag, y.mag)
         THEN BigInt(y.neg, NatSub(y.mag, x.mag))
         ELSE LET diff == NatSub(x.mag, y.mag)
              IN  BigInt(x.neg /\ diff # <<0>>, diff)

\* x - y.
Sub(x, y) == Add(x, BigInt(~y.neg /\ y.mag # <<0>>, y.mag))

\* The digits of mag // 2.
Half(mag) ==
    Canon([i \in DOMAIN mag |->
              ((IF i = 1 THEN 0 ELSE mag[i - 1] % 2) * 10 + mag[i]) \div 2])

\* x // 2, which rounds down, also below zero.
FloorDiv2(x) ==
    IF ~x.neg THEN BigInt(FALSE, Half(x.mag))
    ELSE IF x.mag[Len(x.mag)] % 2 = 0 THEN BigInt(TRUE, Half(x.mag))
    ELSE BigInt(TRUE, Half(NatAdd(x.mag, <<1>>)))

\* int(s) of a string of digits.
int(s) == BigInt(FALSE, Canon([i \in DOMAIN s |-> DigitVal(s[i])]))

\* str(x), as an f-string writes it.
str(x) ==
    (IF x.neg THEN <<"-">> ELSE <<>>)
        \o [i \in DOMAIN x.mag |-> DigitChars[x.mag[i] + 1]]

\* 0x0110000100000000 = 76561197960265728.
CONST_ID64 ==
    BigInt(FALSE, <<7, 6, 5, 6, 1, 1, 9, 7, 9, 6, 0, 2, 6, 5, 7, 2, 8>>)

\* The text "STEAM_1:".
STEAM_1 == <<"S", "T", "E", "A", "M", "_", "1", ":">>

\* The text "[U:1:".
U_1 == <<"[", "U", ":", "1", ":">>

\* SteamID.__to_32.
__to_32(id64) == Sub(id64, CONST_ID64)

\* SteamID.__to_steam2; weird_bit is the last binary digit of id64.
__to_steam2(id64) ==
    LET weird_bit == BigInt(FALSE, <<id64.mag[Len(id64.mag)] % 2>>)
    IN  STEAM_1 \o str(weird_bit) \o <<":">>
            \o str(FloorDiv2(Sub(Sub(id64, CONST_ID64), weird_bit)))

\* SteamID.__to_steam3.
__to_steam3(id64) == U_1 \o str(Sub(id64, CONST_ID64)) \o <<"]">>

\* SteamID.__init__: the id64 and the three forms derived from it.
SteamID(id64) ==
    [id64 |-> id64, id32 |-> __to_32(id64),
     steam2 |-> __to_steam2(id64), steam3 |-> __to_steam3(id64)]

\* The letters a-z and A-Z.
LetterSet ==
    {"a", "b", "c", "d", "e", "f", "g", "h", "i", "j", "k", "l", "m",
     "n", "o", "p", "q", "r", "s", "t", "u", "v", "w", "x", "y", "z",
     "A", "B", "C", "D", "E", "F", "G", "H", "I", "J", "K", "L", "M",
     "N", "O", "P", "Q", "R", "S", "T", "U", "V", "W", "X", "Y", "Z"}

\* The characters the class [a-zA-Z-0-9_\-] matches.
VanitySet == LetterSet \cup DigitSet \cup {"-", "_"}

\* No match of a pattern (re.search gave None).
NoMatch == <<>>

\* Where "$" matches: at the end of the string, or before a line feed that
\* ends it.  No pattern here can match a line feed, so the text up to "$"
\* is the string without one line feed at its end.
Chomp(s) ==
    IF Len(s) > 0 /\ s[Len(s)] = "\n" THEN SubSeq(s, 1, Len(s) - 1) ELSE s

\* Where the group before "/?$" ends in t: before the "/" that ends t, or
\* at the end of t.
BeforeSlash(t) ==
    IF Len(t) > 0 /\ t[Len(t)] = "/" THEN Len(t) - 1 ELSE Len(t)

RECURSIVE RunLen(_, _, _)
\* How many characters of the class C end at position e of t, in a row.
RunLen(t, e, C) ==
    IF e = 0 \/ t[e] \notin C THEN 0 ELSE 1 + RunLen(t, e - 1, C)

\* The literal lit is in t and ends at position e.
EndsWithAt(t, e, lit) ==
    /\ e >= Len(lit)
    /\ SubSeq(t, e - Len(lit) + 1, e) = lit

\* re.search(r"STEAM_1:([0-1]):([0-9]+)$", s): <<group 1, group 2>>.
search_id2(s) ==
    LET t == Chomp(s)
        k == RunLen(t, Len(t), DigitSet)
    IN  IF /\ k >= 1
           /\ Len(t) - k >= 2
           /\ t[Len(t) - k] = ":"
           /\ t[Len(t) - k - 1] \in {"0", "1"}
           /\ EndsWithAt(t, Len(t) - k - 2, STEAM_1)
        THEN <<t[Len(t) - k - 1], SubSeq(t, Len(t) - k + 1, Len(t))>>
        ELSE NoMatch

\* re.search(r"\[U:1:([0-9]{1,10})\]$", s): <<group 1>>.
search_id3(s) ==
    LET t == Chomp(s)
        k == RunLen(t, Len(t) - 1, DigitSet)
    IN  IF /\ Len(t) > 0
           /\ t[Len(t)] = "]"
           /\ k \in 1..10
           /\ EndsWithAt(t, Len(t) - 1 - k, U_1)
        THEN <<SubSeq(t, Len(t) - k, Len(t) - 1)>>
        ELSE NoMatch

\* search_id64, had the pattern been r"([0-9]{17})$", without the slash.
search_id64_no_slash(s) ==
    LET t == Chomp(s)
    IN  IF RunLen(t, Len(t), DigitSet) >= 17
        THEN <<SubSeq(t, Len(t) - 16, Len(t))>>
        ELSE NoMatch

\* re.search(r"([0-9]{17})/?$", s): <<group 1>>, the 17 digits at the end.
search_id64(s) ==
    LET t == Chomp(s)
        e == BeforeSlash(t)
    IN  IF RunLen(t, e, DigitSet) >= 17
        THEN <<SubSeq(t, e - 16, e)>>
        ELSE NoMatch

\* re.search(r"([0-9]{1,10})/?$", s): <<group 1>>.  The search takes the
\* first place from the left where a match starts: the last ten digits of
\* a longer run of digits.
search_id32(s) ==
    LET t == Chomp(s)
        e == BeforeSlash(t)
        k == RunLen(t, e, DigitSet)
    IN  IF k >= 1
        THEN <<SubSeq(t, e - (IF k > 10 THEN 10 ELSE k) + 1, e)>>
        ELSE NoMatch

\* re.search(r"([a-zA-Z-0-9_\-]+)/?$", s): <<group 1>>.
search_vanity(s) ==
    LET t == Chomp(s)
        e == BeforeSlash(t)
        k == RunLen(t, e, VanitySet)
    IN  IF k >= 1 THEN <<SubSeq(t, e - k + 1, e)>> ELSE NoMatch

\* An answer of the Steam Web API: the status code, and the JSON document.
Response(status_code, json) == [status_code |-> status_code, json |-> json]

\* A body that is not JSON, or lacks the keys that are read from it.
Malformed == [kind |-> "malformed"]

\* No answer: api.get raised an httpx.TransportError (no connection, a
\* timeout).
NetworkFailure == [status_code |-> 0, json |-> [kind |-> "network"]]

\* The body of ResolveVanityURL: success is 1 with a steamid, or 42.
VanityBody(success, steamid) ==
    [kind |-> "vanity", success |-> success, steamid |-> steamid]

\* How a call ended: with a value, or with an exception; and the number of
\* requests it sent to the Steam Web API.
Returned(value, calls) ==
    [status |-> "returned", value |-> value, calls |-> calls]

Raised(exception, calls) ==
    [status |-> "raised", value |-> exception, calls |-> calls]

\* x * 2.
Mul2(x) == Add(x, x)

\* from_guess, had the vanity branch called response.raise_for_status().
from_guess_raise_for_status(input_str, response) ==
    LET id2 == search_id2(input_str)
        id3 == search_id3(input_str)
        id64 == search_id64(input_str)
        id32 == search_id32(input_str)
        vanity == search_vanity(input_str)
        data == response.json
    IN  IF id2 # NoMatch
        THEN Returned(SteamID(Add(Add(Mul2(int(id2[2])), CONST_ID64),
                                  int(<<id2[1]>>))), 0)
        ELSE IF id3 # NoMatch
        THEN Returned(SteamID(Add(int(id3[1]), CONST_ID64)), 0)
        ELSE IF id64 # NoMatch
        THEN Returned(SteamID(int(id64[1])), 0)
        ELSE IF id32 # NoMatch
        THEN Returned(SteamID(Add(int(id32[1]), CONST_ID64)), 0)
        ELSE IF vanity # NoMatch
        THEN IF response = NetworkFailure
             THEN Raised("TransportError", 1)
             ELSE IF response.status_code # 200 \/ data = Malformed
             THEN Raised("Exception", 1)
             ELSE IF data.success = 1
             THEN Returned(SteamID(int(data.steamid)), 1)
             ELSE Raised("IdNotFound", 1)
        ELSE Raised("IdNotFound", 0)

\* from_guess, had the account number branch come before the id64 branch.
from_guess_id32_first(input_str, response) ==
    LET id2 == search_id2(input_str)
        id3 == search_id3(input_str)
        id64 == search_id64(input_str)
        id32 == search_id32(input_str)
        vanity == search_vanity(input_str)
        data == response.json
    IN  IF id2 # NoMatch
        THEN Returned(SteamID(Add(Add(Mul2(int(id2[2])), CONST_ID64),
                                  int(<<id2[1]>>))), 0)
        ELSE IF id3 # NoMatch
        THEN Returned(SteamID(Add(int(id3[1]), CONST_ID64)), 0)
        ELSE IF id32 # NoMatch
        THEN Returned(SteamID(Add(int(id32[1]), CONST_ID64)), 0)
        ELSE IF id64 # NoMatch
        THEN Returned(SteamID(int(id64[1])), 0)
        ELSE IF vanity # NoMatch
        THEN IF response = NetworkFailure
             THEN Raised("TransportError", 1)
             ELSE IF data = Malformed
             THEN Raised("Exception", 1)
             ELSE IF response.status_code = 200 /\ data.success = 1
             THEN Returned(SteamID(int(data.steamid)), 1)
             ELSE Raised("IdNotFound", 1)
        ELSE Raised("IdNotFound", 0)

\* from_guess, had the SteamID2 branch left the parity bit out.
from_guess_no_parity(input_str, response) ==
    LET id2 == search_id2(input_str)
        id3 == search_id3(input_str)
        id64 == search_id64(input_str)
        id32 == search_id32(input_str)
        vanity == search_vanity(input_str)
        data == response.json
    IN  IF id2 # NoMatch
        THEN Returned(SteamID(Add(Mul2(int(id2[2])), CONST_ID64)), 0)
        ELSE IF id3 # NoMatch
        THEN Returned(SteamID(Add(int(id3[1]), CONST_ID64)), 0)
        ELSE IF id64 # NoMatch
        THEN Returned(SteamID(int(id64[1])), 0)
        ELSE IF id32 # NoMatch
        THEN Returned(SteamID(Add(int(id32[1]), CONST_ID64)), 0)
        ELSE IF vanity # NoMatch
        THEN IF response = NetworkFailure
             THEN Raised("TransportError", 1)
             ELSE IF data = Malformed
             THEN Raised("Exception", 1)
             ELSE IF response.status_code = 200 /\ data.success = 1
             THEN Returned(SteamID(int(data.steamid)), 1)
             ELSE Raised("IdNotFound", 1)
        ELSE Raised("IdNotFound", 0)

\* SteamID.from_guess, given what ResolveVanityURL answers when asked.
from_guess(input_str, response) ==
    LET id2 == search_id2(input_str)
        id3 == search_id3(input_str)
        id64 == search_id64(input_str)
        id32 == search_id32(input_str)
        vanity == search_vanity(input_str)
        data == response.json
    IN  IF id2 # NoMatch
        THEN Returned(SteamID(Add(Add(Mul2(int(id2[2])), CONST_ID64),
                                  int(<<id2[1]>>))), 0)
        ELSE IF id3 # NoMatch
        THEN Returned(SteamID(Add(int(id3[1]), CONST_ID64)), 0)
        ELSE IF id64 # NoMatch
        THEN Returned(SteamID(int(id64[1])), 0)
        ELSE IF id32 # NoMatch
        THEN Returned(SteamID(Add(int(id32[1]), CONST_ID64)), 0)
        ELSE IF vanity # NoMatch
        THEN IF response = NetworkFailure
             THEN Raised("TransportError", 1)
             ELSE IF data = Malformed
             THEN Raised("Exception", 1)
             ELSE IF response.status_code = 200 /\ data.success = 1
             THEN Returned(SteamID(int(data.steamid)), 1)
             ELSE Raised("IdNotFound", 1)
        ELSE Raised("IdNotFound", 0)

\* One call into the Steam classes: which one, with what argument, what the
\* Steam Web API answered to the requests it sent, and how it ended.
Steam(op, given, responses, result) ==
    [op |-> op, given |-> given, responses |-> responses, result |-> result]

\* No call into the Steam classes was made yet.
NoSteam == Steam("none", <<>>, <<>>, <<>>)

\* A call that has not run yet.
Pending == [status |-> "pending", value |-> <<>>, calls |-> 0]

\* SteamID.from_guess runs on the text it was given.  The answer of
\* ResolveVanityURL stays part of the call only when the request was sent.
Guess ==
    /\ steam.op = "from_guess"
    /\ steam.result = Pending
    /\ LET result == from_guess(steam.given, steam.responses[1])
       IN  steam' = Steam("from_guess", steam.given,
                          IF result.calls = 1 THEN steam.responses ELSE <<>>,
                          result)
    /\ UNCHANGED <<binds, complete_cache, modals, reply, view, bot>>

\* An optional value: Python's None, or the value.
Absent == <<>>

Some(x) == <<x>>

\* dict.get(key): the keys that may be missing hold Absent / Some(value).
\* The player of GetPlayerSummaries: timecreated, lastlogoff and
\* loccountrycode are left out of a private profile.
SummaryBody(timecreated, lastlogoff, loccountrycode) ==
    [kind |-> "summary", timecreated |-> timecreated,
     lastlogoff |-> lastlogoff, loccountrycode |-> loccountrycode]

\* The player of GetPlayerBans.
BansBody(vac, game) ==
    [kind |-> "bans", NumberOfVACBans |-> vac, NumberOfGameBans |-> game]

\* The friends of GetFriendList, a list.
FriendsBody(friends) == [kind |-> "friends", friends |-> friends]

\* The response of GetSteamLevel: player_level may be left out.
LevelBody(player_level) == [kind |-> "level", player_level |-> player_level]

\* The response of GetProfileItemsEquipped.
CustomsBody == [kind |-> "customs"]

\* Response.raise_for_status() raises: the status is not a 2xx one.
raise_for_status(response) == response.status_code \notin 200..299

\* SteamUser.friend_amount.
friend_amount(user) ==
    IF user.r_friends # Absent /\ user.r_friends[1] # <<>>
    THEN Some(Len(user.r_friends[1]))
    ELSE Absent

\* SteamUser.country.
country(user) ==
    IF user.loccountrycode # Absent /\ user.loccountrycode[1] # <<>>
    THEN Some(<<":", "f", "l", "a", "g", "_">>
                  \o lower(user.loccountrycode[1]) \o <<":">>)
    ELSE Absent

\* SteamUser.__init__.
SteamUser(steamid, summary, bans, friends, level, customs) ==
    [id |-> steamid,
     level |-> level.player_level,
     vacban_amount |-> bans.NumberOfVACBans,
     gameban_amount |-> bans.NumberOfGameBans,
     gameban_status |-> bans.NumberOfGameBans > 0,
     join |-> summary.timecreated,
     seen |-> summary.lastlogoff,
     loccountrycode |-> summary.loccountrycode,
     r_friends |-> friends]

\* from_steamid, had it called friends.raise_for_status() like the rest.
from_steamid_friends_raise(steamid, responses) ==
    LET summ == responses[1]
        bans == responses[2]
        friends == responses[3]
        level == responses[4]
        customs == responses[5]
    IN  IF \E i \in 1..5 : responses[i] = NetworkFailure
        THEN Raised("TransportError", 5)
        ELSE IF raise_for_status(summ) THEN Raised("HTTPStatusError", 5)
        ELSE IF summ.json = Malformed THEN Raised("Exception", 5)
        ELSE IF raise_for_status(bans) THEN Raised("HTTPStatusError", 5)
        ELSE IF bans.json = Malformed THEN Raised("Exception", 5)
        ELSE IF raise_for_status(friends) THEN Raised("HTTPStatusError", 5)
        ELSE IF friends.json = Malformed
        THEN Raised("Exception", 5)
        ELSE IF raise_for_status(level) THEN Raised("HTTPStatusError", 5)
        ELSE IF level.json = Malformed THEN Raised("Exception", 5)
        ELSE IF raise_for_status(customs) THEN Raised("HTTPStatusError", 5)
        ELSE IF customs.json = Malformed THEN Raised("Exception", 5)
        ELSE Returned(SteamUser(steamid, summ.json, bans.json,
                                Some(friends.json.friends),
                                level.json, customs.json), 5)

\* SteamUser.from_steamid, given the answers to its five requests, in the
\* order summary, bans, friend list, level, equipped items.  All five are
\* sent and awaited before the first answer is read.
from_steamid(steamid, responses) ==
    LET summ == responses[1]
        bans == responses[2]
        friends == responses[3]
        level == responses[4]
        customs == responses[5]
    IN  IF \E i \in 1..5 : responses[i] = NetworkFailure
        THEN Raised("TransportError", 5)
        ELSE IF raise_for_status(summ) THEN Raised("HTTPStatusError", 5)
        ELSE IF summ.json = Malformed THEN Raised("Exception", 5)
        ELSE IF raise_for_status(bans) THEN Raised("HTTPStatusError", 5)
        ELSE IF bans.json = Malformed THEN Raised("Exception", 5)
        ELSE IF friends.status_code = 200 /\ friends.json = Malformed
        THEN Raised("Exception", 5)
        ELSE IF raise_for_status(level) THEN Raised("HTTPStatusError", 5)
        ELSE IF level.json = Malformed THEN Raised("Exception", 5)
        ELSE IF raise_for_status(customs) THEN Raised("HTTPStatusError", 5)
        ELSE IF customs.json = Malformed THEN Raised("Exception", 5)
        ELSE Returned(SteamUser(steamid, summ.json, bans.json,
                                IF friends.status_code = 200
                                THEN Some(friends.json.friends)
                                ELSE Absent,
                                level.json, customs.json), 5)

\* SteamUser.from_steamid runs on the identifier, with the answers the
\* Steam Web API gives to its requests.
Fetch ==
    /\ steam.op = "from_steamid"
    /\ steam.result = Pending
    /\ steam' = Steam("from_steamid", steam.given, steam.responses,
                      from_steamid(steam.given, steam.responses))
    /\ UNCHANGED <<binds, complete_cache, modals, reply, view, bot>>

\* PRIV_TEXT, what is shown for a value that is not there.
PRIV_TEXT == <<"[Privado]">>

\* Python's truth of an Optional[int]: not None and not 0.
Truthy(opt) == opt # Absent /\ opt[1] # 0

\* utils.to_timestamp on an Optional[int].
to_timestamp(time, stamp) ==
    IF Truthy(time) THEN <<"<t:", time[1], stamp, ">">> ELSE <<>>

\* What the Steam Web API answers while /steam user runs: to the vanity
\* lookup, and to the five requests of a profile fetch; the first
\* `failures` profile fetches get no answer to the summary request.
Answers(vanity, profile, failures) ==
    [vanity |-> vanity, profile |-> profile, failures |-> failures]

\* The answers to the five requests of the k-th profile fetch.
AnswersAt(answers, k) ==
    IF k <= answers.failures
    THEN [answers.profile EXCEPT ![1] = NetworkFailure]
    ELSE answers.profile

\* What /steam user sent as followup: the embed (its kind, the lines of
\* its description, the SteamUser it shows), the requests made, the calls
\* of from_steamid and the seconds slept between them.
Sent(kind, desc, profile, calls, attempts, slept) ==
    [status |-> "sent", value |-> [kind |-> kind, desc |-> desc,
                                   profile |-> profile],
     calls |-> calls, attempts |-> attempts, slept |-> slept]

\* The description of the profile embed: Nivel, Criado, Visto, Amigos, Pais.
Description(profile) ==
    [level |-> IF profile.level # Absent
               THEN <<profile.level[1]>> ELSE PRIV_TEXT,
     join |-> IF Truthy(profile.join)
              THEN to_timestamp(profile.join, ":D") ELSE PRIV_TEXT,
     seen |-> IF Truthy(profile.seen)
              THEN to_timestamp(profile.seen, ":D") ELSE PRIV_TEXT,
     friends |-> IF Truthy(friend_amount(profile))
                 THEN friend_amount(profile) ELSE PRIV_TEXT,
     country |-> IF country(profile) # Absent
                 THEN country(profile)[1] ELSE PRIV_TEXT]

\* steam_user, had a failed lookup and a failed fetch shared one answer.
steam_user_one_error(given_id, answers) ==
    LET userid == from_guess(given_id, answers.vanity)
        fetched == from_steamid(userid.value, AnswersAt(answers, 1))
    IN  IF userid.status = "raised"
        THEN Sent("not_found", <<>>, Absent, userid.calls, 0, 0)
        ELSE IF fetched.status = "raised"
        THEN Sent("not_found", <<>>, Absent,
                  userid.calls + fetched.calls, 1, 0)
        ELSE Sent("profile", Description(fetched.value),
                  Some(fetched.value), userid.calls + fetched.calls, 1, 0)

\* SteamGroup.user: the identifier is guessed, the profile fetched once,
\* and the embed sent; IdNotFound and any other exception are answered
\* with their own error embeds.
steam_user(given_id, answers) ==
    LET userid == from_guess(given_id, answers.vanity)
        fetched == from_steamid(userid.value, AnswersAt(answers, 1))
    IN  IF userid.status = "raised"
        THEN Sent(IF userid.value = "IdNotFound"
                  THEN "not_found" ELSE "error",
                  <<>>, Absent, userid.calls, 0, 0)
        ELSE IF fetched.status = "raised"
        THEN Sent("error", <<>>, Absent, userid.calls + fetched.calls, 1, 0)
        ELSE Sent("profile", Description(fetched.value),
                  Some(fetched.value), userid.calls + fetched.calls, 1, 0)

\* /steam user runs on the text it was given.
User ==
    /\ steam.op = "user"
    /\ steam.result = Pending
    /\ steam' = Steam("user", steam.given, steam.responses,
                      steam_user(steam.given, steam.responses))
    /\ UNCHANGED <<binds, complete_cache, modals, reply, view, bot>>

\* re.search(r"([0-9]+)$", url): <<group 1>>, the digits at the end.
search_item(url) ==
    LET t == Chomp(url)
        k == RunLen(t, Len(t), DigitSet)
    IN  IF k >= 1 THEN <<SubSeq(t, Len(t) - k + 1, Len(t))>> ELSE NoMatch

\* The body of a GetDetails answer: the first of publishedfiledetails.
DetailsBody(result, title) ==
    [kind |-> "details", result |-> result, title |-> title]

\* A JSON body without the keys that are read from it.
ErrorBody == [kind |-> "error"]

\* SteamWorkItem.__init__.
SteamWorkItem(workid, details) == [id |-> workid, title |-> details.title]

\* SteamWorkItem.from_url, given the answer to its request.  The body is
\* parsed before the status is looked at.
from_url(url, response) ==
    LET match == search_item(url)
        data == response.json
    IN  IF match = NoMatch THEN Raised("IdNotFound", 0)
        ELSE IF response = NetworkFailure THEN Raised("TransportError", 1)
        ELSE IF data = Malformed THEN Raised("Exception", 1)
        ELSE IF response.status_code # 200 THEN Raised("IdNotFound", 1)
        ELSE IF data = ErrorBody THEN Raised("Exception", 1)
        ELSE IF data.result = 1
        THEN Returned(SteamWorkItem(match[1], data), 1)
        ELSE Raised("IdNotFound", 1)

\* SteamWorkItem.from_url runs on the text it was given.
FromUrl ==
    /\ steam.op = "from_url"
    /\ steam.result = Pending
    /\ steam' = Steam("from_url", steam.given, steam.responses,
                      from_url(steam.given, steam.responses[1]))
    /\ UNCHANGED <<binds, complete_cache, modals, reply, view, bot>>

\* asyncio.gather in from_steamid: what the Steam Web API answers to the
\* five requests, the tasks made by the call that have not started yet,
\* the requests sent, and the requests answered, in the order of the
\* answers.
Gathering(answers, ready, issued, order) ==
    [answers |-> answers, ready |-> ready, issued |-> issued, order |-> order]

\* gather_done, had the first answer been enough (as with asyncio.wait and
\* FIRST_COMPLETED).
gather_done_first(order) == Len(order) >= 1

\* The future of gather is done when its five awaitables are.
gather_done(order) == Len(order) = 5

\* What gather returns: the results in the order of its arguments.
gathered(answers, order) == [k \in 1..5 |-> answers[k]]

\* The next task that gather made starts: its request is sent.
Start ==
    /\ steam.op = "gather"
    /\ steam.result = Pending
    /\ steam.responses.ready # <<>>
    /\ steam' = [steam EXCEPT
                    !.responses.issued = @ \cup {Head(steam.responses.ready)},
                    !.responses.ready = Tail(@)]
    /\ UNCHANGED <<binds, complete_cache, modals, reply, view, bot>>

\* A request that was sent is answered, or fails, once every task made by
\* gather has run up to its request.
Complete(i) ==
    /\ steam.op = "gather"
    /\ steam.result = Pending
    /\ steam.responses.ready = <<>>
    /\ i \in steam.responses.issued
    /\ \A k \in 1..Len(steam.responses.order) : steam.responses.order[k] # i
    /\ steam' = [steam EXCEPT !.responses.order = Append(@, i)]
    /\ UNCHANGED <<binds, complete_cache, modals, reply, view, bot>>

\* from_steamid goes on after `await asyncio.gather(...)`: with the first
\* exception of a request, or with the five answers.
Resume ==
    /\ steam.op = "gather"
    /\ steam.result = Pending
    /\ LET answers == steam.responses.answers
           order == steam.responses.order
           failed == \E k \in 1..Len(order) : answers[order[k]] = NetworkFailure
       IN  /\ failed \/ gather_done(order)
           /\ steam' = [steam EXCEPT !.result =
                           IF failed
                           THEN Raised("TransportError", 5)
                           ELSE from_steamid(steam.given,
                                             gathered(answers, order))]
    /\ UNCHANGED <<binds, complete_cache, modals, reply, view, bot>>

\* --------------------------------------------------------------------- bot

\* The number of entries of status_list.
ActivityCount == 3

\* status_list, each activity named by its place in the list as written.
status_list == [i \in 1..ActivityCount |-> i]

\* CustomBot.__init__: the index, the activities, and, of what runs later,
\* the cycle_activities tasks and the activity last handed to
\* change_presence.
CustomBot ==
    [activity_index |-> 0, activities |-> status_list, tasks |-> <<>>,
     presence |-> Absent]

\* One cycle_activities task: where it waits, and the activity it read.
Task(pc, activity) == [pc |-> pc, activity |-> activity]

\* cycled, had the index been reset once it is beyond the list.
cycled_beyond(index, length) == index > length

\* `self.activity_index % len(self.activities) == 0`.
cycled(index, length) == index % length = 0

\* random.shuffle(b.activities): the orders it can leave.
shuffled(activities) ==
    {[i \in DOMAIN activities |-> activities[p[i]]] :
        p \in Permutations(DOMAIN activities)}

\* `discord.Game(name=self.activities[self.activity_index])` and the call
\* of change_presence, by a task: it waits for change_presence, or has
\* ended with IndexError.
read_activity(b) ==
    IF b.activity_index \in 0..(Len(b.activities) - 1)
    THEN Task("change_presence", Some(b.activities[b.activity_index + 1]))
    ELSE IF -b.activity_index \in 1..Len(b.activities)
    THEN Task("change_presence",
              Some(b.activities[Len(b.activities) + b.activity_index + 1]))
    ELSE Task("IndexError", Absent)

\* At most this many times on_ready fires.
MaxTasks == 2

\* CustomBot.on_ready up to its first await: a task for cycle_activities is
\* made when there are activities.
on_ready ==
    /\ Len(bot.tasks) < MaxTasks
    /\ bot.activities # <<>>
    /\ bot' = [bot EXCEPT !.tasks = Append(@, Task("created", Absent))]
    /\ UNCHANGED <<binds, complete_cache, modals, reply, steam, view>>

\* cycle_activities from its start to its first await: the shuffle, and
\* the first read.
cycle_start(t) ==
    /\ t \in DOMAIN bot.tasks
    /\ bot.tasks[t].pc = "created"
    /\ \E order \in shuffled(bot.activities) :
           LET b == [bot EXCEPT !.activities = order]
           IN  bot' = [b EXCEPT !.tasks[t] = read_activity(b)]
    /\ UNCHANGED <<binds, complete_cache, modals, reply, steam, view>>

\* cycle_activities from the return of change_presence to the sleep: the
\* index is raised, and reset with a shuffle when it has cycled.
cycle_advance(t) ==
    /\ t \in DOMAIN bot.tasks
    /\ bot.tasks[t].pc = "change_presence"
    /\ LET index == bot.activity_index + 1
       IN  \E order \in IF cycled(index, Len(bot.activities))
                        THEN shuffled(bot.activities)
                        ELSE {bot.activities} :
               bot' = [bot EXCEPT
                          !.presence = bot.tasks[t].activity,
                          !.activity_index =
                              IF cycled(index, Len(bot.activities))
                              THEN 0 ELSE index,
                          !.activities = order,
                          !.tasks[t] = Task("sleep", Absent)]
    /\ UNCHANGED <<binds, complete_cache, modals, reply, steam, view>>

\* cycle_activities from the end of the sleep to the next await: the read
\* at the top of the loop.
cycle_wake(t) ==
    /\ t \in DOMAIN bot.tasks
    /\ bot.tasks[t].pc = "sleep"
    /\ bot' = [bot EXCEPT !.tasks[t] = read_activity(bot)]
    /\ UNCHANGED <<binds, complete_cache, modals, reply, steam, view>>

\* ------------------------------------------------------------ specification

\* One step of a command or event that may write to the table: by a member
\* <<user, guild>> of M, for a name of N; or the bot leaves a guild.
Command(M, N) ==
    \/ \E m \in M, name \in N :
           register(m[1], m[2], name) /\ UNCHANGED <<steam, view, bot>>
    \/ \E m \in M, name \in N :
           modify(m[1], m[2], name) /\ UNCHANGED <<steam, view, bot>>
    \/ \E m \in M, name \in N, manage_messages \in BOOLEAN :
           /\ delete(m[1], m[2], name, manage_messages)
           /\ UNCHANGED <<steam, view, bot>>
    \/ \E m \in M :
           server_leave_deleter(m[2]) /\ UNCHANGED <<steam, view, bot>>

\* One look-up of a bind by name: /bind say by a member of M for a name of N.
Lookup(M, N) ==
    \E m \in M, name \in N :
        say(m[1], m[2], name) /\ UNCHANGED <<steam, view, bot>>

\* One submission of an open modal: a text of T typed, at a time of Tm, with
\* the mentions resolving as one of E says.
Submit(T, Tm, E) ==
    \/ \E modal \in modals, value \in T, timestamp \in Tm, env \in E :
           /\ BindRegisterModal_on_submit(modal, value, timestamp, env)
           /\ UNCHANGED <<steam, view, bot>>
    \/ \E modal \in modals, value \in T, env \in E :
           /\ BindModifyModal_on_submit(modal, value, env)
           /\ UNCHANGED <<steam, view, bot>>

\* One step that reads the binds of a member of M: an autocomplete request
\* with one of C typed so far, or list-mine.
Read(M, C) ==
    \/ \E m \in M, current \in C :
           /\ bind_complete(m[1], m[2], current)
           /\ UNCHANGED <<steam, view, bot>>
    \/ \E m \in M : listmine(m[1], m[2]) /\ UNCHANGED <<steam, view, bot>>

\* Who sends commands where, as <<user, guild>>: user 1 is a member of
\* guilds 1 and 2, user 2 of guild 1.
Members == {<<1, 1>>, <<2, 1>>, <<1, 2>>}

\* The guilds the bot is in.
Guilds == {m[2] : m \in Members}

\* Names as typed: "Go", "go".
Names == {<<"G", "o">>, <<"g", "o">>}

\* Texts as typed: three and five ordinary characters.
Texts == {<<Atom("plain", 3)>>, <<Atom("plain", 5)>>}

\* int(time.time()) at a submission.
Times == {1000}

\* No mention resolves: nothing of Texts holds one.
NoEnv == [user |-> [i \in {} |-> 0], role |-> [i \in {} |-> 0]]

Init ==
    /\ binds = <<>>
    /\ complete_cache = EmptyCache
    /\ modals = {}
    /\ reply = Reply("start", "", <<>>, <<>>)
    /\ view = NoView
    /\ bot = CustomBot
    /\ steam = NoSteam

\* The commands that write and the modals, of the members.
Next ==
    \/ Command(Members, Names)
    \/ Submit(Texts, Times, {NoEnv})

Spec == Init /\ [][Next]_vars

\* Names as typed where the cache is watched: "go".
CacheNames == {<<"g", "o">>}

\* What is typed into an autocompleted option so far.
Currents == {<<>>, <<"g">>}

\* The commands and the modals, with autocomplete requests and list-mine.
NextCache ==
    \/ Command(Members, CacheNames)
    \/ Submit(Texts, Times, {NoEnv})
    \/ Read(Members, Currents)

SpecCache == Init /\ [][NextCache]_vars

\* Where names are validated: one user in one guild.
NameMembers == {<<1, 1>>}

\* Names as typed: "a", "ab", "a-", "a" 25 and 26 times, and U+0130 twice.
ValidatedNames ==
    {<<"a">>, <<"a", "b">>, <<"a", "-">>, Rep(<<"a">>, MAX_NAME_LEN),
     Rep(<<"a">>, MAX_NAME_LEN + 1), <<"I_dot", "I_dot">>}

\* The commands and the modals for names at and beyond the limits.
NextNames ==
    \/ Command(NameMembers, ValidatedNames)
    \/ Lookup(NameMembers, ValidatedNames)
    \/ Submit({<<Atom("plain", 3)>>}, Times, {NoEnv})

SpecNames == Init /\ [][NextNames]_vars

\* Texts as typed: of 2, 3, 600 and 601 ordinary characters; of 600
\* characters ending in "*DEAD*" or in "@here"; the mention "<@1>"; the role
\* mention "<@&1>".
LongTexts ==
    {<<Atom("plain", MIN_TEXT_LEN - 1)>>, <<Atom("plain", MIN_TEXT_LEN)>>,
     <<Atom("plain", MAX_TEXT_LEN)>>, <<Atom("plain", MAX_TEXT_LEN + 1)>>,
     <<Atom("plain", MAX_TEXT_LEN - 6), Atom("DEAD", 0)>>,
     <<Atom("plain", MAX_TEXT_LEN - 5), Atom("here", 0)>>,
     <<Atom("user", 1)>>, <<Atom("role", 1)>>}

\* How mentions resolve: fetch_user(1) raises, or gives a display name of 1
\* or 32 characters; the guild has no role 1, or one named with 4 characters.
Envs ==
    {[user |-> [i \in {1} |-> u], role |-> [i \in {1} |-> r]] :
        u \in {0, 1, 32}, r \in {0, 4}}

\* The commands and the modals for texts at and beyond the limits.
NextTexts ==
    \/ Command(NameMembers, CacheNames)
    \/ Lookup(NameMembers, CacheNames)
    \/ Submit(LongTexts, Times, Envs)

SpecTexts == Init /\ [][NextTexts]_vars

\* Where lookups by case are watched: user 1 in both guilds.
CaseMembers == {<<1, 1>>, <<1, 2>>}

\* Names as typed: "Go" and U+00DF followed by "a".
CaseNames == {<<"G", "o">>, <<"sz", "a">>}

\* int(time.time()) at a submission, where the time stored is watched.
CaseTimes == {1000, 2000}

\* The commands and the modals for names whose case varies.
NextCase ==
    \/ Command(CaseMembers, CaseNames)
    \/ Lookup(CaseMembers, CaseNames)
    \/ Submit({<<Atom("plain", 3)>>}, CaseTimes, {NoEnv})

SpecCase == Init /\ [][NextCase]_vars

\* Where the cap of the autocomplete is watched: two users in one guild.
CompleteMembers == {<<1, 1>>, <<2, 1>>}

\* The name of the i-th bind that user 1 registered before: three letters,
\* none of them "g", different for different i up to 125.
NameOf(i) ==
    LET A == <<"a", "b", "s", "i", "o">>
    IN  <<A[(((i - 1) \div 25) % 5) + 1], A[(((i - 1) \div 5) % 5) + 1],
          A[((i - 1) % 5) + 1]>>

\* The table after user 1 registered n binds in guild 1, one after the other.
Registered(n) ==
    [i \in 1..n |-> Bind(NameOf(i), <<Atom("plain", 3)>>, 1, 1, 1000)]

\* The table starts empty, or holds one bind less than the autocomplete
\* shows, or as many as it shows.
InitComplete ==
    /\ binds \in {Registered(0), Registered(MAX_COMPLETE_OPTS - 1),
                  Registered(MAX_COMPLETE_OPTS)}
    /\ complete_cache = EmptyCache
    /\ modals = {}
    /\ reply = Reply("start", "", <<>>, <<>>)
    /\ view = NoView
    /\ bot = CustomBot
    /\ steam = NoSteam

\* The commands and the modals for the name "go", with autocomplete
\* requests and list-mine.
NextComplete ==
    \/ Command(CompleteMembers, CacheNames)
    \/ Submit({<<Atom("plain", 3)>>}, Times, {NoEnv})
    \/ Read(CompleteMembers, Currents)

SpecComplete == InitComplete /\ [][NextComplete]_vars

\* Account numbers, as decimal texts: the least, small ones, 2^31 - 1 and
\* the two greatest of 32 bits.
AccountNumbers ==
    {<<"0">>,
     <<"1">>,
     <<"1", "1">>,
     <<"2", "2">>,
     <<"2", "1", "4", "7", "4", "8", "3", "6", "4", "7">>,
     <<"4", "2", "9", "4", "9", "6", "7", "2", "9", "4">>,
     <<"4", "2", "9", "4", "9", "6", "7", "2", "9", "5">>}

\* Texts as users paste them: SteamID2 and SteamID3 forms, right and wrong,
\* numbers of 3, 11, 16, 17 and 18 digits, vanity names, and texts that no
\* pattern takes.
PastedTexts ==
    {<<"S", "T", "E", "A", "M", "_", "1", ":", "1", ":", "1", "1">>,
     <<"S", "T", "E", "A", "M", "_", "1", ":", "0", ":", "0">>,
     <<"S", "T", "E", "A", "M", "_", "1", ":", "1", ":", "0", "0", "7">>,
     <<"S", "T", "E", "A", "M", "_", "1", ":", "0", ":", "3", "8", "2",
       "8", "0", "5", "9", "8", "9", "8", "0", "1", "3", "2", "8", "6",
       "4">>,
     <<"S", "T", "E", "A", "M", "_", "0", ":", "1", ":", "1", "1">>,
     <<"S", "T", "E", "A", "M", "_", "1", ":", "2", ":", "1", "1">>,
     <<"S", "T", "E", "A", "M", "_", "1", ":", "1", ":">>,
     <<"[", "U", ":", "1", ":", "2", "2", "]">>,
     <<"[", "U", ":", "1", ":", "1", "2", "3", "4", "5", "6", "7", "8",
       "9", "0", "1", "]">>,
     <<"[", "U", ":", "1", ":", "]">>,
     <<"7", "6", "5", "6", "1", "1", "9", "7", "9", "6", "0", "2", "8",
       "7", "9", "3", "0">>,
     <<"1", "0", "0", "0", "0", "0", "0", "0", "0", "0", "0", "0", "0",
       "0", "0", "0", "0">>,
     <<"9", "9", "9", "9", "9", "9", "9", "9", "9", "9", "9", "9", "9",
       "9", "9", "9", "9">>,
     <<"0", "0", "0", "0", "0", "0", "0", "0", "0", "0", "0", "0", "0",
       "0", "0", "0", "1">>,
     <<"1", "7", "6", "5", "6", "1", "1", "9", "7", "9", "6", "0", "2",
       "8", "7", "9", "3", "0">>,
     <<"7", "6", "5", "6", "1", "1", "9", "7", "9", "6", "0", "2", "8",
       "7", "9", "3">>,
     <<"1", "2", "3", "4", "5", "6", "7", "8", "9", "0", "1">>,
     <<"0", "0", "7">>,
     <<"g", "a", "b", "e">>,
     <<"g", "a", "b", "e", "1", "2", "3">>,
     <<"g", "a", "-", "b", "e", "_", "x">>,
     <<>>,
     <<"g", "a", "b", "e", "!">>,
     <<"-">>}

\* The start of a profile URL by id64 and by vanity name, or nothing.
Prefixes ==
    {<<>>,
     <<"h", "t", "t", "p", "s", ":", "/", "/", "s", "t", "e", "a", "m",
       "c", "o", "m", "m", "u", "n", "i", "t", "y", ".", "c", "o", "m",
       "/", "p", "r", "o", "f", "i", "l", "e", "s", "/">>,
     <<"h", "t", "t", "p", "s", ":", "/", "/", "s", "t", "e", "a", "m",
       "c", "o", "m", "m", "u", "n", "i", "t", "y", ".", "c", "o", "m",
       "/", "i", "d", "/">>}

\* What follows the identifier: nothing, a slash, a line feed.
Suffixes == {<<>>, <<"/">>, <<"\n">>}

\* What /steam user is given: a pasted text, or the decimal, SteamID2 or
\* SteamID3 form of an account number, alone or inside a URL.
GuessInputs ==
    LET forms == PastedTexts \cup AccountNumbers
                     \cup {__to_steam2(Add(int(n), CONST_ID64)) :
                              n \in AccountNumbers}
                     \cup {__to_steam3(Add(int(n), CONST_ID64)) :
                              n \in AccountNumbers}
    IN  {pre \o form \o suf :
            pre \in Prefixes, form \in forms, suf \in Suffixes}

\* What ResolveVanityURL answers: a match, no match, an error page that is
\* not JSON, and an error with a JSON body.
VanityResponses ==
    {Response(200, VanityBody(1, <<"7", "6", "5", "6", "1", "1", "9", "7", "9",
                                   "6", "0", "2", "8", "7", "9", "3", "0">>)),
     Response(200, VanityBody(42, <<>>)),
     Response(403, Malformed),
     Response(500, VanityBody(42, <<>>))}

\* SteamID.from_guess is called with a text of GuessInputs, while
\* ResolveVanityURL would answer one of VanityResponses.
InitSteam ==
    /\ binds = <<>>
    /\ complete_cache = EmptyCache
    /\ modals = {}
    /\ reply = Reply("start", "", <<>>, <<>>)
    /\ view = NoView
    /\ bot = CustomBot
    /\ steam \in {Steam("from_guess", input_str, <<response>>, Pending) :
                     input_str \in GuessInputs, response \in VanityResponses}

NextSteam == Guess

SpecSteam == InitSteam /\ [][NextSteam]_vars

\* What GetPlayerSummaries answers: a public profile, a private one, and
\* an error page.
SummaryResponses ==
    {Response(200, SummaryBody(Some(1000), Some(2000), Some(<<"G", "B">>))),
     Response(200, SummaryBody(Absent, Absent, Absent)),
     Response(401, Malformed),
     Response(500, Malformed)}

\* What GetPlayerBans answers.
BansResponses == {Response(200, BansBody(0, 1)), Response(500, Malformed)}

\* What GetFriendList answers: three friends, none, and private.
FriendsResponses ==
    {Response(200, FriendsBody(<<1, 2, 3>>)),
     Response(200, FriendsBody(<<>>)),
     Response(401, Malformed),
     Response(500, Malformed)}

\* What GetSteamLevel answers: level 5, level 0, no level, and errors.
LevelResponses ==
    {Response(200, LevelBody(Some(5))),
     Response(200, LevelBody(Some(0))),
     Response(200, LevelBody(Absent)),
     Response(401, Malformed),
     Response(500, Malformed)}

\* What GetProfileItemsEquipped answers.
CustomsResponses == {Response(200, CustomsBody), Response(500, Malformed)}

\* SteamUser.from_steamid is called with the identifier 76561197960287930,
\* while the Steam Web API would answer its five requests in one of the
\* ways above.
InitProfile ==
    /\ binds = <<>>
    /\ complete_cache = EmptyCache
    /\ modals = {}
    /\ reply = Reply("start", "", <<>>, <<>>)
    /\ view = NoView
    /\ bot = CustomBot
    /\ steam \in {Steam("from_steamid",
                        SteamID(Add(int(<<"2", "2", "2", "0", "2">>),
                                    CONST_ID64)),
                        <<summ, bans, friends, level, customs>>, Pending) :
                     summ \in SummaryResponses, bans \in BansResponses,
                     friends \in FriendsResponses, level \in LevelResponses,
                     customs \in CustomsResponses}

NextProfile == Fetch

SpecProfile == InitProfile /\ [][NextProfile]_vars

\* The most profile fetches in a row that get no answer.
MaxFailures == 4

\* What /steam user is given: an id64, a vanity name, and nothing usable.
UserInputs ==
    {<<"7", "6", "5", "6", "1", "1", "9", "7", "9", "6", "0", "2", "8", "7",
       "9", "3", "0">>,
     <<"g", "a", "b", "e">>,
     <<"g", "a", "b", "e", "!">>}

\* /steam user is called with a text of UserInputs, while the Steam Web
\* API would answer, or not answer, in one of the ways above.
InitUser ==
    /\ binds = <<>>
    /\ complete_cache = EmptyCache
    /\ modals = {}
    /\ reply = Reply("start", "", <<>>, <<>>)
    /\ view = NoView
    /\ bot = CustomBot
    /\ steam \in {Steam("user", given_id,
                        Answers(vanity,
                                <<summ, bans, friends, level, customs>>,
                                failures),
                        Pending) :
                     given_id \in UserInputs,
                     vanity \in VanityResponses \cup {NetworkFailure},
                     summ \in SummaryResponses, bans \in BansResponses,
                     friends \in FriendsResponses, level \in LevelResponses,
                     customs \in CustomsResponses,
                     failures \in 0..MaxFailures}

NextUser == User

SpecUser == InitUser /\ [][NextUser]_vars

\* The start of the URL of a workshop item, or nothing.
ItemPrefixes ==
    {<<>>,
     <<"h", "t", "t", "p", "s", ":", "/", "/", "s", "t", "e", "a", "m",
       "c", "o", "m", "m", "u", "n", "i", "t", "y", ".", "c", "o", "m",
       "/", "s", "h", "a", "r", "e", "d", "f", "i", "l", "e", "s", "/",
       "f", "i", "l", "e", "d", "e", "t", "a", "i", "l", "s", "/", "?",
       "i", "d", "=">>}

\* Item ids and what is given in their place: nothing, numbers of 1, 3 and
\* 10 digits, digits before and after letters, letters alone.
ItemTexts ==
    {<<>>,
     <<"7">>,
     <<"1", "2", "3">>,
     <<"2", "0", "4", "0", "5", "7", "8", "1", "7", "3">>,
     <<"1", "2", "a">>,
     <<"a", "1", "2">>,
     <<"a", "b", "c">>}

\* What /steam workshop is given.
ItemInputs ==
    {pre \o text \o suf :
        pre \in ItemPrefixes, text \in ItemTexts, suf \in Suffixes}

\* What GetDetails answers: the item, no such item, and errors with a body
\* that is JSON, is JSON without the details, or is not JSON.
DetailsResponses ==
    {Response(200, DetailsBody(1, <<"M", "a", "p">>)),
     Response(200, DetailsBody(9, <<>>)),
     Response(200, ErrorBody),
     Response(500, DetailsBody(1, <<"M", "a", "p">>)),
     Response(500, ErrorBody),
     Response(500, Malformed),
     Response(403, Malformed),
     NetworkFailure}

\* SteamWorkItem.from_url is called with a text of ItemInputs, while
\* GetDetails would answer one of DetailsResponses.
InitItem ==
    /\ binds = <<>>
    /\ complete_cache = EmptyCache
    /\ modals = {}
    /\ reply = Reply("start", "", <<>>, <<>>)
    /\ view = NoView
    /\ bot = CustomBot
    /\ steam \in {Steam("from_url", url, <<response>>, Pending) :
                     url \in ItemInputs, response \in DetailsResponses}

NextItem == FromUrl

SpecItem == InitItem /\ [][NextItem]_vars

\* SteamUser.from_steamid has called asyncio.gather on its five requests,
\* which the Steam Web API would answer in one of the ways above, or, for
\* the level, not at all.
InitGather ==
    /\ binds = <<>>
    /\ complete_cache = EmptyCache
    /\ modals = {}
    /\ reply = Reply("start", "", <<>>, <<>>)
    /\ view = NoView
    /\ bot = CustomBot
    /\ steam \in {Steam("gather",
                        SteamID(Add(int(<<"2", "2", "2", "0", "2">>),
                                    CONST_ID64)),
                        Gathering(<<summ, bans, friends, level, customs>>,
                                  <<1, 2, 3, 4, 5>>, {}, <<>>),
                        Pending) :
                     summ \in SummaryResponses, bans \in BansResponses,
                     friends \in FriendsResponses,
                     level \in LevelResponses \cup {NetworkFailure},
                     customs \in CustomsResponses}

NextGather == Start \/ (\E i \in 1..5 : Complete(i)) \/ Resume

SpecGather == InitGather /\ [][NextGather]_vars

\* The most binds that user 1 has registered when listing them.
MaxBinds == 61

\* Who presses the buttons of a view: the one who listed, and another.
Pressers == {1, 2}

\* User 1 has registered some binds in guild 1, none to MaxBinds.
InitList ==
    /\ binds \in {Registered(n) : n \in 0..MaxBinds}
    /\ complete_cache = EmptyCache
    /\ modals = {}
    /\ reply = Reply("start", "", <<>>, <<>>)
    /\ steam = NoSteam
    /\ view = NoView
    /\ bot = CustomBot

\* /bind list-mine by the two users, the presses of the buttons of the
\* view it sent, and the timeout of the view.
NextList ==
    \/ \E m \in CompleteMembers :
           /\ listmine(m[1], m[2])
           /\ view' = listmine_view(m[1], m[2])
           /\ UNCHANGED <<steam, bot>>
    \/ \E user \in Pressers : back(user) /\ UNCHANGED <<steam, bot>>
    \/ \E user \in Pressers : forward(user) /\ UNCHANGED <<steam, bot>>
    \/ on_timeout /\ UNCHANGED <<steam, bot>>

SpecList == InitList /\ [][NextList]_vars

\* on_ready fires, and the tasks it made take their steps.
NextBot ==
    \/ on_ready
    \/ \E t \in 1..MaxTasks : cycle_start(t)
    \/ \E t \in 1..MaxTasks : cycle_advance(t)
    \/ \E t \in 1..MaxTasks : cycle_wake(t)

SpecBot == Init /\ [][NextBot]_vars

\* ------------------------------------------------------------------ claims

\* The rows of a table whose guild is not g, in rowid order.
OtherGuilds(tbl, g) ==
    LET Other(b) == b.guild # g
    IN  SelectSeq(tbl, Other)

\* C1: in every reachable state the table holds at most one bind per
\* (guild, lowercased name), whatever the interleaving of register commands
\* and register-modal submissions of the users.
C1_OneBindPerGuildAndName ==
    \A i \in DOMAIN binds, j \in DOMAIN binds :
        (binds[i].guild = binds[j].guild
            /\ lower(binds[i].name) = lower(binds[j].name)) => i = j

\* C1's case: a submission lost the race (its modal was sent when the name
\* was free, the INSERT found it taken), while both guilds hold the name.
C1_LostRace ==
    /\ reply.op = "register_submit"
    /\ reply.status = "IntegrityError"
    /\ \E i \in DOMAIN binds, j \in DOMAIN binds :
           binds[i].name = binds[j].name /\ binds[i].guild # binds[j].guild

\* C2: a create for a (guild, lowercased name) that already has a bind fails
\* (IntegrityError from the UNIQUE constraint), and the failed create leaves
\* every stored bind, and their order, exactly as it was.
C2_DuplicateCreateFails ==
    [][reply'.op = "register_submit" =>
       \A modal \in modals, value \in Texts, timestamp \in Times :
          (/\ BindRegisterModal_on_submit(modal, value, timestamp, NoEnv)
           /\ get_bind(modal.name, modal.guild) # None)
          => (reply'.status = "IntegrityError" /\ binds' = binds)]_vars

\* C2's case: "Go" was typed for a create that failed on the stored "go",
\* whose text is not the one a later create would have written first.
C2_GoThenGoFailed ==
    /\ reply.op = "register_submit"
    /\ reply.status = "IntegrityError"
    /\ \E i \in DOMAIN binds :
           binds[i].name = <<"g", "o">> /\ binds[i].text = <<Atom("plain", 5)>>
    /\ \A m \in modals : m.kind = "register" => m.name = <<"G", "o">>
    /\ modals # {}

\* C5: no modify submission changes the text of a bind whose stored author
\* is another user than the one submitting.
C5_OnlyAuthorChangesText ==
    [][reply'.op = "modify_submit" =>
       \A modal \in modals, value \in Texts :
          BindModifyModal_on_submit(modal, value, NoEnv)
          => \A i \in DOMAIN binds :
                 binds'[i].text # binds[i].text
                 => binds[i].author = modal.user]_vars

\* C6: delete removes a bind only for its stored author or a holder of
\* manage_messages, and then only that bind; any other requester gets the
\* not-owner error and the table is unchanged; a name with no bind in the
\* guild changes nothing.
C6_DeleteAuthorised ==
    [][reply'.op = "delete" =>
       \A m \in Members, name \in Names, perm \in BOOLEAN :
          delete(m[1], m[2], name, perm)
          => LET bind == get_bind(name, m[2])
                 Keep(b) == b # bind
             IN  /\ bind = None => binds' = binds
                 /\ (bind # None /\ bind.author # m[1] /\ ~perm)
                    => (binds' = binds /\ reply'.status = "not_owner")
                 /\ (bind # None /\ (bind.author = m[1] \/ perm))
                    => (binds' = SelectSeq(binds, Keep)
                        /\ reply'.status = "deleted")]_vars

\* C6's case: a requester who is neither the author nor privileged was
\* refused, and the bind is still there.
C6_Refused ==
    /\ reply.op = "delete"
    /\ reply.status = "not_owner"
    /\ binds # <<>>

\* C7: server_leave_deleter(g) removes every bind of guild g and leaves the
\* binds of every other guild as they were; afterwards get_bind(name, g) is
\* None for every name.
C7_PurgeGuild ==
    [][reply'.op = "guild_remove" =>
       \A guild \in Guilds :
          server_leave_deleter(guild)
          => /\ \A i \in DOMAIN binds' : binds'[i].guild # guild
             /\ OtherGuilds(binds', guild) = OtherGuilds(binds, guild)
             /\ \A name \in Names : get_bind(name, guild)' = None]_vars

\* C7's case: a guild was purged and a bind of another guild is still there.
C7_PurgedOneGuild ==
    /\ reply.op = "guild_remove"
    /\ binds # <<>>

\* The handlers that wrote to the table and ran to their end.
WriteCompleted ==
    \/ reply.op = "register_submit" /\ reply.status = "registered"
    \/ reply.op = "modify_submit" /\ reply.status = "edited"
    \/ reply.op = "delete" /\ reply.status = "deleted"
    \/ reply.op = "guild_remove"

\* C3: right after any completed add_bind, edit_bind, delete_bind or
\* nuke_server_binds the autocomplete cache holds no list for any
\* (user, guild) key.
C3_CacheEmptyAfterWrite ==
    WriteCompleted => DOMAIN complete_cache = {}

\* C3's case: an edit completed while both guilds hold binds.
C3_EditedWithTwoGuilds ==
    /\ reply.op = "modify_submit"
    /\ reply.status = "edited"
    /\ \E i \in DOMAIN binds, j \in DOMAIN binds :
           binds[i].guild # binds[j].guild

\* C4: no read is served from a cache entry filled before a later write:
\* every cached list is the list the table gives now, every autocomplete
\* choice names a bind that the user has in the guild now, and every bind
\* list-mine shows is a bind that the user has in the guild now.
C4_NoStaleRead ==
    /\ [](\A k \in DOMAIN complete_cache :
              complete_cache[k] = get_all_binds(k[1], k[2]))
    /\ [][reply'.op = "complete" =>
          \A m \in Members, current \in Currents :
             bind_complete(m[1], m[2], current)
             => \A i \in DOMAIN reply'.choices :
                    \E j \in DOMAIN binds' :
                        /\ binds'[j].name = reply'.choices[i]
                        /\ binds'[j].author = m[1]
                        /\ binds'[j].guild = m[2]]_vars
    /\ [][reply'.op = "listmine" =>
          \A m \in Members :
             listmine(m[1], m[2])
             => \A i \in DOMAIN reply'.rows :
                    \E j \in DOMAIN binds' :
                        /\ binds'[j] = reply'.rows[i]
                        /\ binds'[j].author = m[1]
                        /\ binds'[j].guild = m[2]]_vars

\* C4's case: an autocomplete request was answered from a list cached
\* earlier, while another key is cached too.
C4_ServedFromCache ==
    /\ reply.op = "complete"
    /\ reply.status = "hit"
    /\ reply.choices # <<>>
    /\ Cardinality(DOMAIN complete_cache) >= 2

\* The name is alphanumeric and its length is in [2,25].
ValidName(name) ==
    /\ isalnum(name)
    /\ MIN_NAME_LEN <= Len(name)
    /\ Len(name) <= MAX_NAME_LEN

\* C8: registering a name that is not alphanumeric or whose length is
\* outside [2,25] fails and sends no modal, a valid name such as "ab" gets
\* its modal, and hence every stored bind name is alphanumeric with length
\* in [2,25].
C8_StoredNamesValid ==
    /\ [][reply'.op = "register" =>
          \A m \in NameMembers, name \in ValidatedNames :
             register(m[1], m[2], name)
             => /\ ~ValidName(name)
                   => (modals' = modals /\ reply'.status # "modal")
                /\ (ValidName(name) /\ get_bind(name, m[2]) = None)
                   => reply'.status = "modal"]_vars
    /\ [](\A i \in DOMAIN binds : ValidName(binds[i].name))

\* C9: after any sequence of register and modify submissions the text
\* stored for every bind has length in [3,600].
C9_StoredTextLength ==
    \A i \in DOMAIN binds :
        /\ MIN_TEXT_LEN <= TextLen(binds[i].text)
        /\ TextLen(binds[i].text) <= MAX_TEXT_LEN

\* The name as typed, all lower case, all upper case.
CaseVariants(name) == {name, lower(name), upper(name)}

\* C10: after a create for (name, guild) succeeds, get_bind(v, guild) is
\* the bind created (name lowercased, same text, author, guild, time) for
\* every upper/lower-case variant v of name, and get_bind(v, g) is as before
\* for every other guild g.
C10_FoundUnderEveryCase ==
    [][(reply'.op = "register_submit" /\ reply'.status = "registered") =>
       \A modal \in modals, timestamp \in CaseTimes :
          BindRegisterModal_on_submit(modal, <<Atom("plain", 3)>>, timestamp,
                                      NoEnv)
          => \A v \in CaseVariants(modal.name) :
                /\ get_bind(v, modal.guild)' =
                       Bind(lower(modal.name), <<Atom("plain", 3)>>,
                            modal.user, modal.guild, timestamp)
                /\ \A m \in CaseMembers :
                       m[2] # modal.guild
                       => get_bind(v, m[2])' = get_bind(v, m[2])]_vars


\* C11: an autocomplete request for a key that is not cached reads the
\* table once and caches what it read; a request for a key that is cached
\* (no write has come since: every write empties the cache) reads nothing,
\* also when the user has no binds in the guild.  "miss" is the status of
\* a request that called get_all_binds.
C11_OneReadPerKey ==
    [][reply'.op = "complete" =>
          \A m \in Members, current \in Currents :
             bind_complete(m[1], m[2], current)
             => /\ m \notin DOMAIN complete_cache
                   => /\ reply'.status = "miss"
                      /\ complete_cache'[m] = get_all_binds(m[1], m[2])
                /\ m \in DOMAIN complete_cache
                   => reply'.status = "hit"]_vars


\* C12: an autocomplete request returns at most 25 names, each of them
\* contains what was typed, and when at most 25 binds of the user contain
\* what was typed, each of those binds is among the names returned.
C12_SuggestsEveryMatch ==
    [][reply'.op = "complete" =>
          \A m \in CompleteMembers, current \in Currents :
             bind_complete(m[1], m[2], current)
             => LET mine == get_all_binds(m[1], m[2])
                    matching == {i \in DOMAIN mine :
                                    IsSubstr(current, mine[i].name)}
                    choices == reply'.choices
                IN  /\ Len(choices) <= MAX_COMPLETE_OPTS
                    /\ \A j \in DOMAIN choices : IsSubstr(current, choices[j])
                    /\ Cardinality(matching) <= MAX_COMPLETE_OPTS
                       => \A i \in matching :
                             \E j \in DOMAIN choices :
                                 choices[j] = mine[i].name]_vars


\* The call of from_guess has run.
Guessed == steam.op = "from_guess" /\ steam.result # Pending

\* The text is one digit or more, and digits only.
AllDigits(d) == Len(d) >= 1 /\ \A i \in DOMAIN d : d[i] \in DigitSet

\* C13: "STEAM_1:b:d", for a parity bit b and digits d, resolves to
\* 2*d + BASE + b; and the SteamID2 text, the SteamID3 text and the decimal
\* of a 32-bit account number n all resolve to n + BASE; in each case
\* without a request to the Steam Web API.
C13_SteamFormsAgree ==
    Guessed =>
        /\ \A k \in 1..(Len(steam.given) - 10) :
              LET d == SubSeq(steam.given, Len(steam.given) - k + 1,
                              Len(steam.given))
                  b == steam.given[9]
              IN  (/\ AllDigits(d)
                   /\ b \in {"0", "1"}
                   /\ steam.given = STEAM_1 \o <<b, ":">> \o d)
                  => steam.result =
                        Returned(SteamID(Add(Add(Mul2(int(d)), CONST_ID64),
                                             int(<<b>>))), 0)
        /\ \A n \in AccountNumbers :
              LET id64 == Add(int(n), CONST_ID64)
              IN  steam.given \in {__to_steam2(id64), __to_steam3(id64), n}
                  => /\ steam.result.status = "returned"
                     /\ steam.result.value.id64 = id64
                     /\ steam.result.calls = 0

\* C13's case: the SteamID2 text of the greatest 32-bit account number,
\* 4294967295, was resolved to an identifier with that account number.
C13_GreatestAccount ==
    /\ Guessed
    /\ steam.given = STEAM_1 \o <<"1", ":">> \o str(FloorDiv2(int(
           <<"4", "2", "9", "4", "9", "6", "7", "2", "9", "5">>)))
    /\ steam.result.status = "returned"
    /\ steam.result.value.id32 =
           int(<<"4", "2", "9", "4", "9", "6", "7", "2", "9", "5">>)


\* C14: a text that ends with a number of exactly 17 digits, alone or
\* after the start of a profile URL, with or without a slash after it,
\* resolves to that number as id64, without a request to the Steam Web API.
C14_Id64Unchanged ==
    Guessed =>
        \A pre \in Prefixes, suf \in {<<>>, <<"/">>} :
            LET from == Len(pre) + 1
                to == Len(steam.given) - Len(suf)
                core == SubSeq(steam.given, from, to)
            IN  (/\ to - from + 1 = 17
                 /\ AllDigits(core)
                 /\ steam.given = pre \o core \o suf)
                => /\ steam.result.status = "returned"
                   /\ steam.result.value.id64 = int(core)
                   /\ steam.result.calls = 0

\* C14's case: a profile URL that ends with 76561197960287930 and a slash
\* was resolved.
C14_ProfileUrlResolved ==
    /\ Guessed
    /\ Len(steam.given) > 18
    /\ steam.given[Len(steam.given)] = "/"
    /\ steam.result.status = "returned"
    /\ str(steam.result.value.id64) =
           SubSeq(steam.given, Len(steam.given) - 17, Len(steam.given) - 1)
    /\ str(steam.result.value.id32) = <<"2", "2", "2", "0", "2">>


\* The patterns of from_guess that the text matches, by their place in the
\* order SteamID2, SteamID3, id64, account number, vanity name.
MatchedPatterns(s) ==
    {i \in 1..5 :
        <<search_id2(s), search_id3(s), search_id64(s), search_id32(s),
          search_vanity(s)>>[i] # NoMatch}

\* The id64 that numeric pattern i alone gives for the text, by the rule
\* the resolver states for it.
IdByPattern(i, s) ==
    CASE i = 1 -> Add(Add(Mul2(int(search_id2(s)[2])), CONST_ID64),
                      int(<<search_id2(s)[1]>>))
      [] i = 2 -> Add(int(search_id3(s)[1]), CONST_ID64)
      [] i = 3 -> int(search_id64(s)[1])
      [] i = 4 -> Add(int(search_id32(s)[1]), CONST_ID64)

\* C15: the first pattern that matches, in the order SteamID2, SteamID3,
\* id64, account number, vanity name, decides the result alone: the id64
\* returned is the one that pattern gives, a numeric pattern sends no
\* request, and when the first match is the vanity name nothing but the
\* lookup's answer is returned.
C15_FirstMatchWins ==
    Guessed =>
        \A i \in MatchedPatterns(steam.given) :
            (\A j \in MatchedPatterns(steam.given) : i <= j)
            => /\ i <= 4
                  => steam.result =
                        Returned(SteamID(IdByPattern(i, steam.given)), 0)
               /\ (i = 5 /\ steam.result.status = "returned")
                  => /\ steam.responses # <<>>
                     /\ steam.result.value.id64 =
                           int(steam.responses[1].json.steamid)

\* C15's case: a text that the SteamID2 pattern matches was resolved, and
\* not to the id64 that the account number pattern gives for it.
C15_Steam2NotAccount ==
    /\ Guessed
    /\ {1, 4} \subseteq MatchedPatterns(steam.given)
    /\ steam.result.status = "returned"
    /\ steam.result.value.id64 # IdByPattern(4, steam.given)


\* The vanity lookup answered, and its answer is not a match: a JSON body
\* that does not say success = 1 with status 200.
ReportsNoMatch(response) ==
    /\ response.json # Malformed
    /\ ~(response.status_code = 200 /\ response.json.success = 1)

\* C16: from_guess raises IdNotFound exactly when no numeric pattern
\* matches the text and either the text has no vanity name at its end or
\* the lookup reports no match; it sends at most one request, and none
\* when a numeric pattern matches.
C16_NotFoundExactly ==
    Guessed =>
        LET matched == MatchedPatterns(steam.given)
            numeric == matched \cap 1..4 # {}
        IN  /\ (steam.result.status = "raised"
                   /\ steam.result.value = "IdNotFound")
               <=> /\ ~numeric
                   /\ \/ 5 \notin matched
                      \/ /\ steam.responses # <<>>
                         /\ ReportsNoMatch(steam.responses[1])
            /\ steam.result.calls <= 1
            /\ numeric => steam.result.calls = 0 /\ steam.responses = <<>>

\* C16's case: the text ends with a vanity name, the lookup was made and
\* said, with status 200, that it has no match: IdNotFound.
C16_VanityNotFound ==
    /\ Guessed
    /\ steam.result = Raised("IdNotFound", 1)
    /\ steam.responses # <<>>
    /\ steam.responses[1].status_code = 200


\* C17: when none of the SteamID2, SteamID3 and id64 patterns matches, a
\* text whose last token of letters, digits, "-" and "_" is not, as a
\* whole, a number of 1 to 10 digits is handled as a vanity name: the
\* lookup is requested, and an identifier is returned only as the lookup
\* answered it, never as BASE plus some of the token's digits.
C17_AccountOnlyBareNumber ==
    Guessed =>
        LET token == search_vanity(steam.given)
        IN  (/\ MatchedPatterns(steam.given) \cap 1..3 = {}
             /\ token # NoMatch
             /\ ~(AllDigits(token[1]) /\ Len(token[1]) <= 10))
            => /\ steam.result.calls = 1
               /\ steam.responses # <<>>
               /\ steam.result.status = "returned"
                  => steam.result.value.id64 =
                        int(steam.responses[1].json.steamid)

\* C18: for an identifier that from_guess returned, its steam2 text, its
\* steam3 text and the decimal of its id32 each resolve to an identifier
\* with the same id64, whatever the vanity lookup would answer.
C18_RoundTrip ==
    (Guessed /\ steam.result.status = "returned") =>
        LET s == steam.result.value
        IN  \A text \in {s.steam2, s.steam3, str(s.id32)},
               response \in VanityResponses :
                /\ from_guess(text, response).status = "returned"
                /\ from_guess(text, response).value.id64 = s.id64


\* The call of from_steamid has run.
Fetched == steam.op = "from_steamid" /\ steam.result # Pending

\* The answer has status 200 and the body that the request is known for.
Succeeds(response) ==
    response.status_code = 200 /\ response.json # Malformed

\* Of the five answers, those at the places of I succeed.
AllSucceed(I) == \A i \in I : Succeeds(steam.responses[i])

\* C19: when the friend list request is answered with a status other than
\* 200 and the other four requests succeed, from_steamid returns a profile
\* and its friend count is absent.
C19_PrivateFriendsAbsent ==
    (/\ Fetched
     /\ steam.responses[3].status_code # 200
     /\ AllSucceed({1, 2, 4, 5}))
    => /\ steam.result.status = "returned"
       /\ friend_amount(steam.result.value) = Absent

\* C19's case: the friend list was answered with 401, and the profile came
\* back with level 5 and no friend count.
C19_FriendsRefused ==
    /\ Fetched
    /\ steam.responses[3].status_code = 401
    /\ steam.result.status = "returned"
    /\ steam.result.value.level = Some(5)
    /\ friend_amount(steam.result.value) = Absent

\* C20: a request marked as restricted, by a status other than 200 (the
\* level, the friend list) or by an answer without the field (level,
\* creation time, last-seen time, country), gives a profile, returned with
\* that field absent, when the other requests succeed.
C20_RestrictedFieldsAbsent ==
    Fetched =>
        LET summ == steam.responses[1]
            friends == steam.responses[3]
            level == steam.responses[4]
            user == steam.result.value
            returned == steam.result.status = "returned"
        IN  /\ (/\ AllSucceed({1, 2, 3, 5})
                /\ \/ level.status_code # 200
                   \/ Succeeds(level) /\ level.json.player_level = Absent)
               => returned /\ user.level = Absent
            /\ (AllSucceed({1, 2, 4, 5}) /\ friends.status_code # 200)
               => returned /\ friend_amount(user) = Absent
            /\ (AllSucceed(1..5) /\ summ.json.timecreated = Absent)
               => returned /\ user.join = Absent
            /\ (AllSucceed(1..5) /\ summ.json.lastlogoff = Absent)
               => returned /\ user.seen = Absent
            /\ (AllSucceed(1..5) /\ summ.json.loccountrycode = Absent)
               => returned /\ country(user) = Absent

\* /steam user has run and sent its followup.
UserDone == steam.op = "user" /\ steam.result # Pending

\* The identifier given to /steam user was resolved.
UserResolved ==
    from_guess(steam.given, steam.responses.vanity).status = "returned"

\* Of the five answers of a profile fetch of /steam user, those at the
\* places of I succeed.
ProfileSucceeds(I) == \A i \in I : Succeeds(steam.responses.profile[i])

\* C21: when the summary, bans, level or equipped-items request is answered
\* with a server error, no profile is made of the other answers, and
\* /steam user reports the generic error, which is not the not-found error.
C21_ServerErrorIsHardFailure ==
    (/\ UserDone
     /\ UserResolved
     /\ \E i \in {1, 2, 4, 5} :
            steam.responses.profile[i].status_code \in 500..599)
    => /\ from_steamid(SteamID(CONST_ID64),
                       steam.responses.profile).status = "raised"
       /\ steam.result.value.kind = "error"
       /\ steam.result.value.kind # "not_found"
       /\ steam.result.value.profile = Absent

\* C21's case: only the level request was answered with 500, every request
\* was answered, and the generic error was sent after the six requests.
C21_LevelServerError ==
    /\ UserDone
    /\ steam.given = <<"g", "a", "b", "e">>
    /\ steam.responses.failures = 0
    /\ ProfileSucceeds({1, 2, 3, 5})
    /\ steam.responses.profile[4].status_code = 500
    /\ steam.result.value.kind = "error"
    /\ steam.result.calls = 6

\* C22: a profile fetch that gets no answer is made again, up to 3 times
\* and 1 second after the failure each time, and one that gets an error
\* answer is not made again.
C22_RetriesTransientFailures ==
    (UserDone /\ UserResolved) =>
        LET failures == steam.responses.failures
        IN  /\ (failures \in 1..3 /\ ProfileSucceeds(1..5))
               => /\ steam.result.value.kind = "profile"
                  /\ steam.result.attempts = failures + 1
                  /\ steam.result.slept = failures
            /\ (failures > 3)
               => /\ steam.result.value.kind = "error"
                  /\ steam.result.attempts = 4
                  /\ steam.result.slept = 3
            /\ (failures = 0 /\ ~ProfileSucceeds({1, 2, 4, 5}))
               => /\ steam.result.value.kind = "error"
                  /\ steam.result.attempts = 1
                  /\ steam.result.slept = 0

\* C23: a field that is there, be it zero, is not shown as a private one;
\* a public friend list without friends gives the friend count 0.
C23_ZeroIsNotPrivate ==
    (UserDone /\ steam.result.value.kind = "profile") =>
        LET summ == AnswersAt(steam.responses, 1)[1].json
            friends == AnswersAt(steam.responses, 1)[3]
            level == AnswersAt(steam.responses, 1)[4].json
            shown == steam.result.value.profile[1]
            desc == steam.result.value.desc
        IN  /\ level.player_level # Absent
               => shown.level # Absent /\ desc.level # PRIV_TEXT
            /\ summ.timecreated # Absent
               => shown.join # Absent /\ desc.join # PRIV_TEXT
            /\ summ.lastlogoff # Absent
               => shown.seen # Absent /\ desc.seen # PRIV_TEXT
            /\ summ.loccountrycode # Absent
               => country(shown) # Absent /\ desc.country # PRIV_TEXT
            /\ Succeeds(friends)
               => /\ friend_amount(shown) = Some(Len(friends.json.friends))
                  /\ desc.friends # PRIV_TEXT


\* The call of from_url has run.
ItemFetched == steam.op = "from_url" /\ steam.result # Pending

\* C24: from_url takes the digits at the end of the text as the item id
\* and sends exactly one request; it raises IdNotFound when the answer has
\* a result code other than 1 or a status other than 200, and, without any
\* request, when the text does not end with digits.
C24_WorkshopItemFetch ==
    ItemFetched =>
        LET match == search_item(steam.given)
            response == steam.responses[1]
            result == steam.result
        IN  /\ match = NoMatch => result = Raised("IdNotFound", 0)
            /\ match # NoMatch
               => /\ result.calls = 1
                  /\ result.status = "returned" => result.value.id = match[1]
            /\ (/\ match # NoMatch
                /\ response # NetworkFailure
                /\ \/ response.status_code # 200
                   \/ /\ response.json \notin {Malformed, ErrorBody}
                      /\ response.json.result # 1)
               => result = Raised("IdNotFound", 1)
            /\ (/\ match # NoMatch
                /\ response.status_code = 200
                /\ response.json \notin {Malformed, ErrorBody}
                /\ response.json.result = 1)
               => result.status = "returned"


\* C25: from_steamid sends its five requests before any of them is
\* awaited or answered, returns a profile only when all five are answered,
\* and returns the same profile in whatever order they are answered.
C25_FanOutFanIn ==
    steam.op = "gather" =>
        LET gather == steam.responses
        IN  /\ gather.order # <<>> => gather.issued = 1..5
            /\ steam.result # Pending => gather.issued = 1..5
            /\ (steam.result # Pending /\ steam.result.status = "returned")
               => /\ Len(gather.order) = 5
                  /\ {gather.order[k] : k \in 1..5} = 1..5
                  /\ steam.result = from_steamid(steam.given, gather.answers)

\* C25's case: the five requests were answered last to first, the friend
\* list with a refusal, and the profile with level 5 came back.
C25_AnsweredInReverse ==
    /\ steam.op = "gather"
    /\ steam.responses.order = <<5, 4, 3, 2, 1>>
    /\ steam.responses.answers[3].status_code = 401
    /\ steam.result # Pending
    /\ steam.result.status = "returned"
    /\ steam.result.value.level = Some(5)
    /\ steam.result.value.r_friends = Absent


\* The row b is the one with the guild and the name of bind.
Keyed(b, bind) == b.guild = bind.guild /\ b.name = bind.name

\* C26: edit_bind changes the text of the row with the guild and name of
\* the given bind and nothing else of it, delete_bind removes that row
\* alone, every other row of every guild stays as it is, and edit_bind of
\* a bind whose row is gone adds no row.
C26_OnlyTheKeyedRow ==
    [][/\ \A modal \in modals, value \in Texts :
              (/\ BindModifyModal_on_submit(modal, value, NoEnv)
               /\ reply'.status = "edited")
              => /\ Len(binds') = Len(binds)
                 /\ \A i \in DOMAIN binds :
                        IF Keyed(binds[i], modal.bind)
                        THEN /\ binds'[i].text = cleanse_text(value, NoEnv)
                             /\ binds'[i].name = binds[i].name
                             /\ binds'[i].author = binds[i].author
                             /\ binds'[i].guild = binds[i].guild
                             /\ binds'[i].time = binds[i].time
                        ELSE binds'[i] = binds[i]
       /\ \A m \in Members, name \in Names, manage_messages \in BOOLEAN :
              (/\ delete(m[1], m[2], name, manage_messages)
               /\ reply'.status = "deleted")
              => LET bind == get_bind(name, m[2])
                     Other(b) == ~Keyed(b, bind)
                 IN  /\ binds' = SelectSeq(binds, Other)
                     /\ Len(binds') = Len(binds) - 1]_vars

\* C26's case: a bind was edited while the bind of the same name in the
\* other guild kept another text.
C26_EditedBesideNamesake ==
    /\ reply.op = "modify_submit"
    /\ reply.status = "edited"
    /\ \E i, j \in DOMAIN binds :
           /\ binds[i].name = binds[j].name
           /\ binds[i].guild # binds[j].guild
           /\ binds[i].text # binds[j].text


\* 2^32 = 4294967296, the first number that is not a 32-bit account number.
AccountLimit ==
    int(<<"4", "2", "9", "4", "9", "6", "7", "2", "9", "6">>)

\* C27: every identifier that from_guess returns has an account number of
\* 32 bits, 0 <= id32 < 2^32, which is BASE <= id64 < BASE + 2^32.
C27_AccountNumberInRange ==
    (Guessed /\ steam.result.status = "returned") =>
        LET s == steam.result.value
        IN  /\ ~s.id32.neg
            /\ NatLess(s.id32.mag, AccountLimit.mag)
            /\ ~Sub(s.id64, CONST_ID64).neg
            /\ Sub(s.id64, Add(CONST_ID64, AccountLimit)).neg


\* The view has its index inside the list of embeds, and the buttons that
\* would leave the list, and no others, disabled.
ScrollerInRange ==
    view.embeds # <<>>
    => /\ view.index \in 0..(Len(view.embeds) - 1)
       /\ view.back_disabled <=> view.index = 0
       /\ view.forward_disabled <=> view.index = Len(view.embeds) - 1

\* C28: an EmbScroller over one embed or more, after any presses of its
\* back and forward buttons while they are not disabled, has
\* 0 <= index < len(embeds), back disabled exactly at index 0 and forward
\* disabled exactly at the last index; and a press by a user who is not
\* the one who ran the command changes nothing of it.
C28_ScrollerStaysInRange ==
    /\ ScrollerInRange
    /\ [][/\ ScrollerInRange'
          /\ \A user \in Pressers :
                 (user # view.user /\ (back(user) \/ forward(user)))
                 => view' = view]_vars

\* C28's case: forward was pressed up to the last of five embeds, which is
\* shown, with forward disabled and back not.
C28_LastEmbedReached ==
    /\ reply.op = "forward"
    /\ reply.status = "edited"
    /\ Len(view.embeds) = 5
    /\ view.index = 4
    /\ view.shown = 4
    /\ view.label = <<5, 5>>
    /\ view.forward_disabled
    /\ ~view.back_disabled

RECURSIVE Concat(_)
\* The lists of a list, one after the other.
Concat(lists) ==
    IF lists = <<>> THEN <<>> ELSE Head(lists) \o Concat(Tail(lists))

\* C29: split_binds with group size 15 returns groups that, one after the
\* other, are the list it was given, in order; every group has 1 to 15
\* binds, and every group but the last has 15.
C29_SplitIsPartition ==
    /\ split_binds(<<>>, GROUP_SIZE) = <<>>
    /\ (reply.op = "listmine" /\ reply.status = "list")
       => LET groups == split_binds(reply.rows, GROUP_SIZE)
          IN  /\ Concat(groups) = reply.rows
              /\ \A g \in DOMAIN groups : Len(groups[g]) \in 1..15
              /\ \A g \in 1..(Len(groups) - 1) : Len(groups[g]) = 15
              /\ view.embeds = bind_groups_to_embeds(groups)

\* C29's case: 31 binds were listed, in three embeds, the last with one
\* bind.
C29_ThirtyOneBinds ==
    /\ reply.op = "listmine"
    /\ Len(reply.rows) = 31
    /\ Len(view.embeds) = 3
    /\ Len(view.embeds[2].description) = 15
    /\ Len(view.embeds[3].description) = 1

\* C30: activity_index is a place of the list of activities at every read
\* of activities[activity_index], and no read raises IndexError, whatever
\* the number of cycles and also with several tasks, made by on_ready
\* firing again, taking their steps in turn.
C30_ActivityIndexInRange ==
    /\ bot.activity_index \in 0..(Len(bot.activities) - 1)
    /\ \A t \in DOMAIN bot.tasks : bot.tasks[t].pc # "IndexError"

\* C30's case: two tasks have read the last activity of the list, one
\* after the other, and both wait for change_presence.
C30_TwoTasksAtLastIndex ==
    /\ Len(bot.tasks) = 2
    /\ bot.activity_index = Len(bot.activities) - 1
    /\ \A t \in 1..2 :
           /\ bot.tasks[t].pc = "change_presence"
           /\ bot.tasks[t].activity =
                  Some(bot.activities[Len(bot.activities)])


=============================================================================
